---- MODULE Spec2Model ----
(***************************************************************************)
(* Routing core of Rin: the legacy router adapter (router-legacy.ts) and   *)
(* the Hono router adapter (router-hono.ts) driven by the same sequence of *)
(* registrations and the same requests.                                    *)
(*                                                                         *)
(* Representation of JavaScript strings that are paths: a path string is   *)
(* the result of s.split('/'), a non-empty sequence of segments; a segment *)
(* is a sequence of lexemes (plain text, ":" for the colon that starts a   *)
(* parameter, "%20" style escapes).  "/tag/:name" is                       *)
(* << <<>>, <<"tag">>, <<":", "name">> >>, "/" is << <<>>, <<>> >> and the *)
(* empty string is << <<>> >>.                                             *)
(***************************************************************************)
EXTENDS Integers, Sequences, FiniteSets, TLC

\* ---------------------------------------------------------------- bounds
\* middleware entries, routes and open groups a router holds while it is built
MaxRegistrations == 3

\* the same, for an application built of nested groups
MaxGroupRegistrations == 4

\* calls of set(options) made on entries of one cookie jar
MaxSetCookies == 2

\* ------------------------------------------------------- string helpers
EmptyStr == << <<>> >>
Slash == << <<>>, <<>> >>

StartsWithSlash(s) == Len(s) >= 2 /\ s[1] = <<>>

EndsWithSlash(s) == Len(s) >= 2 /\ s[Len(s)] = <<>>

\* s + t
Concat(s, t) == SubSeq(s, 1, Len(s) - 1) \o << s[Len(s)] \o t[1] >> \o Tail(t)

\* s.slice(0, -1) for a string that ends with '/'
DropLastSlash(s) == SubSeq(s, 1, Len(s) - 1)

\* s.split('/').filter(Boolean)
SplitParts(s) == SelectSeq(s, LAMBDA seg : seg # <<>>)

RECURSIVE JoinLex(_)
JoinLex(seg) == IF seg = <<>> THEN "" ELSE Head(seg) \o JoinLex(Tail(seg))

\* the text of a path string
RECURSIVE Render(_)
Render(s) ==
  IF Len(s) = 1 THEN JoinLex(s[1])
  ELSE JoinLex(Head(s)) \o "/" \o Render(Tail(s))

\* decodeURIComponent on one segment: "%20" is a space, "%E0" is an
\* incomplete UTF-8 escape on which the built-in throws URIError
MalformedLex == {"%E0"}

DecodeLex(l) == IF l = "%20" THEN " " ELSE l

DecodeThrows(seg) == \E k \in 1..Len(seg) : seg[k] \in MalformedLex

RECURSIVE DecodeSeg(_)
DecodeSeg(seg) == IF seg = <<>> THEN "" ELSE DecodeLex(Head(seg)) \o DecodeSeg(Tail(seg))

\* ------------------------------------------------------ JavaScript values
\* A value is [type, prim, fields]: prim is the text of a primitive, fields
\* the own enumerable properties of an object (one level deep).
NoFields == [k \in {} |-> 0]

JsUndefined == [type |-> "undefined", prim |-> "", fields |-> NoFields]
JsNull == [type |-> "null", prim |-> "", fields |-> NoFields]
JsString(x) == [type |-> "string", prim |-> x, fields |-> NoFields]
JsNumber(x) == [type |-> "number", prim |-> x, fields |-> NoFields]
JsObject(f) == [type |-> "object", prim |-> "", fields |-> f]
JsFormData(f) == [type |-> "formdata", prim |-> "", fields |-> f]
JsArray(f) == [type |-> "array", prim |-> "", fields |-> f]
JsFunction == [type |-> "function", prim |-> "[native code]", fields |-> NoFields]
\* a Blob (a File of a multipart body)
JsBlob == [type |-> "blob", prim |-> "", fields |-> NoFields]

\* typeof v
TypeOf(v) ==
  IF v.type \in {"object", "array", "null", "formdata", "blob"} THEN "object" ELSE v.type

\* Array.isArray(v)
IsArray(v) == v.type = "array"

Put(f, k, v) == (k :> v) @@ f

\* ------------------------------------------------- path parameter parsing
IsParam(seg) == seg # <<>> /\ Head(seg) = ":"

ParamName(seg) == JoinLex(Tail(seg))

NoParams == [k \in {} |-> ""]

NoMatch == [matched |-> FALSE, params |-> NoParams]

\* decodeURIComponent(pathPart) inside try / catch of the legacy adapter
LegacyParamValue(pathPart) ==
  IF DecodeThrows(pathPart) THEN JoinLex(pathPart) ELSE DecodeSeg(pathPart)

RECURSIVE LegacyParamsFrom(_, _, _, _)
LegacyParamsFrom(routeParts, pathParts, i, params) ==
  IF i > Len(routeParts) THEN params
  ELSE LegacyParamsFrom(routeParts, pathParts, i + 1,
         IF IsParam(routeParts[i])
         THEN Put(params, ParamName(routeParts[i]), LegacyParamValue(pathParts[i]))
         ELSE params)

\* LegacyRouterAdapter.extractParams: matched = FALSE models the null result
LegacyExtractParams(routePath, pathname) ==
  LET routeParts == SplitParts(routePath)
      pathParts == SplitParts(pathname)
  IN IF Len(routeParts) # Len(pathParts) THEN NoMatch
     ELSE IF \E i \in 1..Len(routeParts) :
               ~IsParam(routeParts[i]) /\ routeParts[i] # pathParts[i]
          THEN NoMatch
          ELSE [matched |-> TRUE,
                params |-> LegacyParamsFrom(routeParts, pathParts, 1, NoParams)]

IsStar(seg) == seg = <<"*">>

RECURSIVE JoinSegs(_)
JoinSegs(parts) ==
  IF parts = <<>> THEN ""
  ELSE IF Len(parts) = 1 THEN JoinLex(parts[1])
  ELSE JoinLex(Head(parts)) \o "/" \o JoinSegs(Tail(parts))

\* the value router-hono.ts stores for a ':name' segment
HonoParamValue(pathPart) == JoinLex(pathPart)

RECURSIVE HonoParamsFrom(_, _, _, _)
HonoParamsFrom(routeParts, pathParts, i, params) ==
  IF i > Len(routeParts) THEN params
  ELSE IF i > Len(pathParts)
       THEN (IF IsStar(routeParts[i]) THEN Put(params, "*", "") ELSE params)
  ELSE IF IsStar(routeParts[i])
       THEN Put(params, "*", JoinSegs(SubSeq(pathParts, i, Len(pathParts))))
  ELSE HonoParamsFrom(routeParts, pathParts, i + 1,
         IF IsParam(routeParts[i])
         THEN Put(params, ParamName(routeParts[i]), HonoParamValue(pathParts[i]))
         ELSE params)

\* extractParams of router-hono.ts
HonoExtractParams(routePath, pathname) ==
  HonoParamsFrom(SplitParts(routePath), SplitParts(pathname), 1, NoParams)

\* ------------------------------------------------------- Hono's matching
\* new Hono() with the default strict matching: the path is taken as it is
HonoNoStrictPath_Strict(pathname) == pathname

\* new Hono({ strict: false }): one trailing slash of the request path is
\* dropped before matching, "/" itself is kept
HonoNoStrictPath(pathname) ==
  IF EndsWithSlash(pathname) /\ pathname # Slash THEN DropLastSlash(pathname)
  ELSE pathname

\* the text Hono compares with a literal segment of the route
HonoSegText(pathPart) ==
  IF DecodeThrows(pathPart) THEN JoinLex(pathPart) ELSE DecodeSeg(pathPart)

RECURSIVE HonoSegsMatch(_, _)
HonoSegsMatch(routeSegs, pathSegs) ==
  IF routeSegs = <<>> THEN pathSegs = <<>>
  ELSE IF IsStar(Head(routeSegs)) THEN TRUE
  ELSE IF pathSegs = <<>> THEN FALSE
  ELSE /\ IF IsParam(Head(routeSegs)) THEN Head(pathSegs) # <<>>
          ELSE JoinLex(Head(routeSegs)) = HonoSegText(Head(pathSegs))
       /\ HonoSegsMatch(Tail(routeSegs), Tail(pathSegs))

\* does the route registered as app.get(fullPath, ...) match the request path
HonoPathMatches(fullPath, pathname) ==
  HonoSegsMatch(Tail(fullPath), Tail(HonoNoStrictPath(pathname)))

\* ------------------------------------------------------------ joinPaths
NormalizePrefix(prefix) ==
  IF prefix = EmptyStr THEN EmptyStr
  ELSE LET withLeadingSlash ==
             IF StartsWithSlash(prefix) THEN prefix ELSE Concat(Slash, prefix)
       IN IF EndsWithSlash(withLeadingSlash) THEN DropLastSlash(withLeadingSlash)
          ELSE withLeadingSlash

JoinPaths(prefix, path) ==
  LET normalizedPrefix == NormalizePrefix(prefix)
      normalizedPath == IF StartsWithSlash(path) THEN path ELSE Concat(Slash, path)
  IN IF normalizedPrefix = EmptyStr THEN normalizedPath
     ELSE IF normalizedPath = Slash THEN normalizedPrefix
     ELSE Concat(normalizedPrefix, normalizedPath)

\* ----------------------------------------------------------- parseQuery
\* A query value is [arr, vals]: arr = FALSE is a single string vals[1],
\* arr = TRUE the list vals.
\* names every plain object inherits from Object.prototype; the value read
\* under such a name is a function
ObjectPrototypeKeys == {"constructor", "toString", "valueOf", "hasOwnProperty"}

InheritedValue == "[native code]"

NoQuery == [k \in {} |-> [arr |-> FALSE, vals |-> <<>>]]

\* key in query
KeyIn(key, query) == key \in DOMAIN query \/ key \in ObjectPrototypeKeys

\* query[key]
QueryGet(query, key) ==
  IF key \in DOMAIN query THEN query[key]
  ELSE [arr |-> FALSE, vals |-> <<InheritedValue>>]

HonoQueryPut(query, key, value) ==
  IF KeyIn(key, query)
  THEN IF QueryGet(query, key).arr
       THEN Put(query, key, [arr |-> TRUE, vals |-> Append(QueryGet(query, key).vals, value)])
       ELSE Put(query, key, [arr |-> TRUE, vals |-> QueryGet(query, key).vals \o <<value>>])
  ELSE Put(query, key, [arr |-> FALSE, vals |-> <<value>>])

RECURSIVE HonoParseQuery(_)
HonoParseQuery(searchParams) ==
  IF searchParams = <<>> THEN NoQuery
  ELSE LET last == searchParams[Len(searchParams)]
       IN HonoQueryPut(HonoParseQuery(SubSeq(searchParams, 1, Len(searchParams) - 1)),
                   last.key, last.value)

LegacyQueryPut(query, key, value) ==
  IF KeyIn(key, query)
  THEN IF QueryGet(query, key).arr
       THEN Put(query, key, [arr |-> TRUE, vals |-> Append(QueryGet(query, key).vals, value)])
       ELSE Put(query, key, [arr |-> TRUE, vals |-> QueryGet(query, key).vals \o <<value>>])
  ELSE Put(query, key, [arr |-> FALSE, vals |-> <<value>>])

RECURSIVE LegacyParseQuery(_)
LegacyParseQuery(searchParams) ==
  IF searchParams = <<>> THEN NoQuery
  ELSE LET last == searchParams[Len(searchParams)]
       IN LegacyQueryPut(LegacyParseQuery(SubSeq(searchParams, 1, Len(searchParams) - 1)),
                         last.key, last.value)


\* ------------------------------------------------------------ parseBody
\* The payload of a request is [contentType, wellFormed, json, form, text]:
\* json is what request.json() resolves to and form what request.formData()
\* yields when the payload is well formed for its content type (both reject
\* otherwise); text is what request.text() resolves to.
CtIncludes(contentType, needle) ==
  \/ contentType = needle
  \/ contentType = needle \o "; charset=utf-8"

Decoded(v) == [ok |-> TRUE, body |-> v]

DecodeFailed == [ok |-> FALSE, body |-> JsUndefined]

\* ['POST', 'PUT', 'PATCH'].includes(method): the decode step runs
DecodesBody_Always(method) == TRUE

DecodesBody(method) == method \in {"POST", "PUT", "PATCH"}

\* parseBody of the legacy adapter calls request.json() or request.formData()
\* on the request itself
LegacyReadsBody(payload) ==
  \/ CtIncludes(payload.contentType, "application/json")
  \/ CtIncludes(payload.contentType, "application/x-www-form-urlencoded")
  \/ CtIncludes(payload.contentType, "multipart/form-data")

\* parseBody of router-hono.ts
HonoParseBody(payload) ==
  IF CtIncludes(payload.contentType, "application/json")
  THEN (IF payload.wellFormed THEN Decoded(payload.json) ELSE DecodeFailed)
  ELSE IF CtIncludes(payload.contentType, "application/x-www-form-urlencoded")
  THEN (IF payload.wellFormed THEN Decoded(JsObject(payload.form)) ELSE DecodeFailed)
  ELSE IF CtIncludes(payload.contentType, "multipart/form-data")
  THEN (IF payload.wellFormed THEN Decoded(JsFormData(payload.form)) ELSE DecodeFailed)
  ELSE Decoded(JsString(payload.text))

\* a decoder that swallows the rejection of request.json() and of
\* request.formData()
LegacyParseBody_Lenient(payload) == Decoded(JsObject(NoFields))

\* LegacyRouterAdapter.parseBody
LegacyParseBody(payload) ==
  IF CtIncludes(payload.contentType, "application/json")
  THEN (IF ~payload.wellFormed THEN DecodeFailed
        ELSE IF payload.json.type \notin {"null", "undefined"} /\ TypeOf(payload.json) = "object"
             THEN Decoded(payload.json)
             ELSE Decoded(JsObject(NoFields)))
  ELSE IF CtIncludes(payload.contentType, "application/x-www-form-urlencoded")
  THEN (IF payload.wellFormed THEN Decoded(JsObject(payload.form)) ELSE DecodeFailed)
  ELSE IF CtIncludes(payload.contentType, "multipart/form-data")
  THEN (IF payload.wellFormed THEN Decoded(JsObject(payload.form)) ELSE DecodeFailed)
  ELSE Decoded(JsObject(NoFields))

\* ------------------------------------------------------- validateSchema
\* A schema is [type, properties]; properties is the list of
\* Object.entries(schema.properties), each [key, type, optional].
NoSchema == [type |-> "undefined", properties |-> <<>>]

ObjectSchema(props) == [type |-> "object", properties |-> props]

Valid == [valid |-> TRUE, errors |-> <<>>]

\* names every value inherits from Object.prototype; the value read under
\* such a name is a function
InheritedKeys == {"constructor", "toString", "valueOf", "hasOwnProperty"}

\* data?.[key]: undefined on null and undefined, an own property of an
\* object, the length of a string or an array, an inherited method
GetProp(v, key) ==
  IF v.type \in {"undefined", "null"} THEN JsUndefined
  ELSE IF v.type = "object" /\ key \in DOMAIN v.fields THEN v.fields[key]
  ELSE IF v.type = "string" /\ key = "length" THEN JsNumber(ToString(Len(v.prim)))
  ELSE IF v.type = "array" /\ key = "length"
  THEN JsNumber(ToString(Cardinality(DOMAIN v.fields)))
  ELSE IF key \in InheritedKeys THEN JsFunction
  ELSE JsUndefined

PropErrors(prop, value) ==
  (IF prop.type = "string" /\ value # JsUndefined /\ TypeOf(value) # "string"
   THEN <<prop.key \o " must be a string">> ELSE <<>>)
  \o (IF prop.type = "number" /\ value # JsUndefined /\ TypeOf(value) # "number"
      THEN <<prop.key \o " must be a number">> ELSE <<>>)
  \o (IF prop.type = "boolean" /\ value # JsUndefined /\ TypeOf(value) # "boolean"
      THEN <<prop.key \o " must be a boolean">> ELSE <<>>)
  \o (IF prop.type = "array" /\ value # JsUndefined /\ ~IsArray(value)
      THEN <<prop.key \o " must be an array">> ELSE <<>>)
  \o (IF ~prop.optional /\ value = JsUndefined
      THEN <<prop.key \o " is required">> ELSE <<>>)

RECURSIVE HonoSchemaErrors(_, _)
HonoSchemaErrors(props, data) ==
  IF props = <<>> THEN <<>>
  ELSE PropErrors(Head(props), GetProp(data, Head(props).key))
       \o HonoSchemaErrors(Tail(props), data)

\* validateSchema of router-hono.ts
HonoValidateSchema(schema, data) ==
  IF schema = NoSchema THEN Valid
  ELSE IF schema.type = "object" /\ schema.properties # <<>>
  THEN LET errors == HonoSchemaErrors(schema.properties, data)
       IN [valid |-> errors = <<>>, errors |-> errors]
  ELSE Valid

\* validation of a property without the required check
LegacyPropErrors_NoRequired(prop, value) ==
  (IF prop.type = "string" /\ value # JsUndefined /\ TypeOf(value) # "string"
   THEN <<prop.key \o " must be a string">> ELSE <<>>)
  \o (IF prop.type = "number" /\ value # JsUndefined /\ TypeOf(value) # "number"
      THEN <<prop.key \o " must be a number">> ELSE <<>>)
  \o (IF prop.type = "boolean" /\ value # JsUndefined /\ TypeOf(value) # "boolean"
      THEN <<prop.key \o " must be a boolean">> ELSE <<>>)
  \o (IF prop.type = "array" /\ value # JsUndefined /\ ~IsArray(value)
      THEN <<prop.key \o " must be an array">> ELSE <<>>)

LegacyPropErrors(prop, value) ==
  (IF prop.type = "string" /\ value # JsUndefined /\ TypeOf(value) # "string"
   THEN <<prop.key \o " must be a string">> ELSE <<>>)
  \o (IF prop.type = "number" /\ value # JsUndefined /\ TypeOf(value) # "number"
      THEN <<prop.key \o " must be a number">> ELSE <<>>)
  \o (IF prop.type = "boolean" /\ value # JsUndefined /\ TypeOf(value) # "boolean"
      THEN <<prop.key \o " must be a boolean">> ELSE <<>>)
  \o (IF prop.type = "array" /\ value # JsUndefined /\ ~IsArray(value)
      THEN <<prop.key \o " must be an array">> ELSE <<>>)
  \o (IF ~prop.optional /\ value = JsUndefined
      THEN <<prop.key \o " is required">> ELSE <<>>)

RECURSIVE LegacySchemaErrors(_, _)
LegacySchemaErrors(props, dataRecord) ==
  IF props = <<>> THEN <<>>
  ELSE LegacyPropErrors(Head(props), GetProp(dataRecord, Head(props).key))
       \o LegacySchemaErrors(Tail(props), dataRecord)

\* LegacyRouterAdapter.validateSchema
LegacyValidateSchema(schema, data) ==
  IF schema = NoSchema THEN Valid
  ELSE IF schema.type = "object" /\ schema.properties # <<>>
  THEN LET dataRecord ==
             IF TypeOf(data) = "object" /\ data.type # "null" THEN data
             ELSE JsObject(NoFields)
           errors == LegacySchemaErrors(schema.properties, dataRecord)
       IN [valid |-> errors = <<>>, errors |-> errors]
  ELSE Valid

\* ------------------------------------------------------------ responses
\* A response is [status, headers, body]; headers maps lower-case names to
\* values and body is [kind, text, json].
NoHeaders == [k \in {} |-> ""]

NullBody == [kind |-> "null", text |-> "", json |-> NoFields]

TextBody(x) == [kind |-> "text", text |-> x, json |-> NoFields]

\* JSON.stringify(value) as a response body
JsonBody(value) == [kind |-> "json", text |-> "", json |-> value]

JsonHeaders == ("content-type" :> "application/json")

NoResponse == [status |-> 0, headers |-> NoHeaders, body |-> NullBody]

\* request.headers.get(name)
HeaderGet(headers, name) == IF name \in DOMAIN headers THEN headers[name] ELSE ""

\* buildPreflightResponse of router-hono.ts
BuildPreflightResponse(request) ==
  LET origin == IF HeaderGet(request.headers, "origin") # ""
                THEN HeaderGet(request.headers, "origin") ELSE "*"
  IN [status |-> 204,
      headers |-> ("access-control-allow-origin" :> origin)
                  @@ ("access-control-allow-methods" :> "GET, POST, PUT, DELETE, PATCH, OPTIONS")
                  @@ ("access-control-allow-headers" :> "content-type, authorization, x-csrf-token")
                  @@ ("access-control-max-age" :> "600")
                  @@ ("access-control-allow-credentials" :> "true"),
      body |-> NullBody]

NotFoundMessage(method, pathname) ==
  "Route " \o method \o " " \o Render(pathname) \o " not found"

ErrorEnvelope(code, message, requestId, details) ==
  [success |-> FALSE,
   error |-> [code |-> code, message |-> message, requestId |-> requestId,
              details |-> details]]

\* a not-found envelope whose message leaves the method out
BuildNotFoundResponse_NoMethod(request, requestId) ==
  [status |-> 404, headers |-> JsonHeaders,
   body |-> JsonBody(ErrorEnvelope("NOT_FOUND",
              "Route " \o Render(request.pathname) \o " not found", requestId, <<>>))]

\* buildNotFoundResponse of router-hono.ts
BuildNotFoundResponse(request, requestId) ==
  [status |-> 404, headers |-> JsonHeaders,
   body |-> JsonBody(ErrorEnvelope("NOT_FOUND",
              NotFoundMessage(request.method, request.pathname), requestId, <<>>))]

\* the not-found branch of LegacyRouterAdapter.handle
LegacyNotFoundResponse(method, pathname, requestId) ==
  [status |-> 404, headers |-> JsonHeaders,
   body |-> JsonBody(ErrorEnvelope("NOT_FOUND",
              NotFoundMessage(method, pathname), requestId, <<>>))]

\* generateRequestId of error-handler.ts
RequestIds == {"req-000001", "req-000002"}

\* An error is [name, message, details].
ValidationError(message, details) ==
  [name |-> "ValidationError", message |-> message, details |-> details]

PlainError(message) == [name |-> "Error", message |-> message, details |-> <<>>]

\* the domain errors a handler throws
NotFoundError(message) == [name |-> "NotFoundError", message |-> message, details |-> <<>>]

ForbiddenError(message) == [name |-> "ForbiddenError", message |-> message, details |-> <<>>]

\* an error handler that knows no error class
HandleError_Internal(error, requestId) ==
  [status |-> 500, headers |-> JsonHeaders,
   body |-> JsonBody(ErrorEnvelope("INTERNAL_ERROR", error.message, requestId,
                                   error.details))]

\* handleError of error-handler.ts
HandleError(error, requestId) ==
  LET status == CASE error.name = "ValidationError" -> 400
                  [] error.name = "NotFoundError" -> 404
                  [] error.name = "ForbiddenError" -> 403
                  [] OTHER -> 500
      code == CASE error.name = "ValidationError" -> "VALIDATION_ERROR"
                [] error.name = "NotFoundError" -> "NOT_FOUND"
                [] error.name = "ForbiddenError" -> "FORBIDDEN"
                [] OTHER -> "INTERNAL_ERROR"
  IN [status |-> status, headers |-> JsonHeaders,
      body |-> JsonBody(ErrorEnvelope(code, error.message, requestId, error.details))]

\* validation.errors.map(message => ({ message }))
RECURSIVE Details(_)
Details(errors) ==
  IF errors = <<>> THEN <<>> ELSE <<[message |-> Head(errors)]>> \o Details(Tail(errors))


\* ------------------------------------------------------------- inputs
Methods == {"GET", "POST", "PUT", "DELETE", "PATCH"}

Lit(x) == <<x>>

Path1(a) == << <<>>, a >>

Path2(a, b) == << <<>>, a, b >>

FeedSchema ==
  ObjectSchema(<< [key |-> "title", type |-> "string", optional |-> FALSE],
                  [key |-> "content", type |-> "string", optional |-> FALSE] >>)

\* the routes the application registers: [method, path, handler, schema]
RouteDefs ==
  { [method |-> "GET", path |-> Path2(Lit("tag"), <<":", "name">>),
     handler |-> "echo", schema |-> NoSchema],
    [method |-> "POST", path |-> Path1(Lit("feed")),
     handler |-> "echo", schema |-> FeedSchema] }

GroupPrefixes == { Path1(Lit("state")) }

\* middleware bodies: "preflight" answers OPTIONS requests itself and lets
\* every other request pass, "deny" answers every request
MwKinds == {"preflight", "deny"}

StateKeys == {"routerMode"}

StateValues == {"after-group"}

NoPayload ==
  [contentType |-> "", wellFormed |-> TRUE, json |-> JsUndefined,
   form |-> NoFields, text |-> ""]

JsonPayload(v, text) ==
  [contentType |-> "application/json", wellFormed |-> TRUE, json |-> v,
   form |-> NoFields, text |-> text]

Payloads ==
  { JsonPayload(JsObject(NoFields), "{}"),
    JsonPayload(JsObject("title" :> JsString("T")), "{title:T}"),
    JsonPayload(JsObject(("title" :> JsString("T")) @@ ("content" :> JsString("C"))),
                "{title:T,content:C}"),
    JsonPayload(JsObject(("title" :> JsNumber("5")) @@ ("content" :> JsString("C"))),
                "{title:5,content:C}"),
    [contentType |-> "application/json", wellFormed |-> FALSE, json |-> JsUndefined,
     form |-> NoFields, text |-> "{title"],
    [contentType |-> "text/plain", wellFormed |-> TRUE, json |-> JsUndefined,
     form |-> NoFields, text |-> "plain-text payload"] }

Pair(k, v) == [key |-> k, value |-> v]

Searches ==
  { <<>>,
    << Pair("tag", "security"), Pair("tag", "edge"), Pair("limit", "5") >>,
    << Pair("toString", "1") >> }

Request(method, pathname, search, headers, payload) ==
  [method |-> method, pathname |-> pathname, search |-> search,
   headers |-> headers, payload |-> payload]

TagPath == Path2(Lit("tag"), <<"hello", "%20", "world">>)

GetPaths ==
  { TagPath,
    TagPath \o << <<>> >>,
    TagPath \o << <<>>, <<>> >>,
    << <<>>, Lit("state") >> \o Tail(TagPath) \o << <<>> >>,
    Path1(Lit("unknown")) }

Requests ==
  { Request("GET", p, <<>>, NoHeaders, NoPayload) : p \in GetPaths }
  \cup { Request("GET", Path2(Lit("tag"), <<"%E0">>), q, NoHeaders, NoPayload) :
           q \in Searches }
  \cup { Request("POST", Path1(Lit("feed")), <<>>, NoHeaders, b) : b \in Payloads }
  \cup { Request("POST", Path2(Lit("state"), Lit("feed")), <<>>, NoHeaders,
                 JsonPayload(JsObject(NoFields), "{}")) }
  \cup { Request("OPTIONS", Path1(Lit("unknown")), <<>>, h, NoPayload) :
           h \in {NoHeaders, ("origin" :> "https://example.com")} }
  \cup { Request("OPTIONS", TagPath, <<>>, NoHeaders, NoPayload) }

\* -------------------------------------------------------------- state
VARIABLES
  lrouters,   \* legacy adapter: the root router and the group routers being built
  lmaps,      \* legacy adapter: the Map objects the appState fields refer to
  hrouters,   \* Hono adapter: [prefix, appState] of the root and group routers
  hroutes,    \* Hono adapter: the routes added to rootState.app, in order
  hmws,       \* Hono adapter: rootState.middlewares
  hmaps,      \* Hono adapter: the Map objects the appState fields refer to
  phase,      \* "boot" until the first request arrives, then "serve"
  cur,        \* the request being handled
  procL,      \* the call of handle() on the legacy adapter for cur
  procH,      \* the call of handle() on the Hono adapter for cur
  stateLog,   \* history: the last state(key, value) call made for each key, and
              \* whether it was made after the boot phase (late)
  schemaCall, \* one call of validateSchema(schema, data) in each adapter
  authCall,   \* one call of deriveAuth(context)
  cookieCall, \* one cookie jar: createCookieHelpers(context) and its uses
  factoryCall,\* one call of createRouterWithFactory(env, deps)
  inflight    \* requests handled concurrently by one router, and its heap

routerVars == <<lrouters, lmaps, hrouters, hroutes, hmws, hmaps, phase, cur, procL, procH, stateLog>>

auxVars == <<schemaCall, authCall, cookieCall, factoryCall, inflight>>

vars == <<lrouters, lmaps, hrouters, hroutes, hmws, hmaps, phase, cur, procL, procH, stateLog,
          schemaCall, authCall, cookieCall, factoryCall, inflight>>

NoState == [k \in {} |-> ""]

NoRoutes == [m \in Methods |-> <<>>]

NoRoute ==
  [method |-> "", path |-> EmptyStr, handler |-> "", schema |-> NoSchema,
   state |-> 0, id |-> 0, grp |-> FALSE, q |-> EmptyStr, chain |-> <<>>]

NoCtx ==
  [built |-> FALSE, params |-> NoParams, query |-> NoQuery, headers |-> NoHeaders,
   body |-> JsUndefined, store |-> NoState,
   set |-> [status |-> 200, headers |-> NoHeaders]]

NoReq == Request("", EmptyStr, <<>>, NoHeaders, NoPayload)

NoLog == [k \in {} |-> [value |-> "", late |-> FALSE]]

Idle ==
  [pc |-> "idle", i |-> 0, rid |-> "", ctx |-> NoCtx, route |-> NoRoute,
   resp |-> NoResponse, ran |-> <<>>, answered |-> 0, decoded |-> FALSE,
   hran |-> FALSE, handled |-> 0, bodyUsed |-> FALSE]

\* no call of validateSchema / deriveAuth is under way
NoSchemaCall == [pc |-> "none"]

NoAuthCall == [pc |-> "none"]

NoCookieCall == [pc |-> "none"]

NoFactoryCall == [pc |-> "none"]

NoInflight == [pc |-> "none"]

RouterInit ==
  /\ lrouters = << [routes |-> NoRoutes, middlewares |-> <<>>, appState |-> 1,
                    prefix |-> EmptyStr] >>
  /\ lmaps = (1 :> NoState)
  /\ hrouters = << [prefix |-> EmptyStr, appState |-> 1] >>
  /\ hroutes = <<>>
  /\ hmws = <<>>
  /\ hmaps = (1 :> NoState)
  /\ phase = "boot"
  /\ cur = NoReq
  /\ procL = Idle
  /\ procH = Idle
  /\ stateLog = NoLog

Init ==
  /\ RouterInit
  /\ schemaCall = NoSchemaCall
  /\ authCall = NoAuthCall
  /\ cookieCall = NoCookieCall
  /\ factoryCall = NoFactoryCall
  /\ inflight = NoInflight

Depth == Len(lrouters)

LTop == lrouters[Len(lrouters)]

HTop == hrouters[Len(hrouters)]

\* the middleware entries, the routes and the open groups of the routers
Registrations == Len(hmws) + Len(hroutes) + (Depth - 1)

ReplaceTop(stack, r) == [stack EXCEPT ![Len(stack)] = r]

\* ------------------------------------------------------- registration
\* use(middleware) on the router being built, in both adapters
\* the prefixes of the groups that are open, outermost first
Chain == [k \in 1..(Depth - 1) |-> lrouters[k + 1].prefix]

\* owner is history: the router use() was called on, named by the prefixes
\* of the groups open at the call
UseWithin(kind, limit) ==
  /\ phase = "boot"
  /\ Registrations < limit
  /\ LET mw == [kind |-> kind, id |-> Len(hmws) + 1, owner |-> Chain]
     IN /\ lrouters' = ReplaceTop(lrouters,
                         [LTop EXCEPT !.middlewares = Append(@, mw)])
        /\ hmws' = Append(hmws, mw)
  /\ UNCHANGED <<lmaps, hrouters, hroutes, hmaps, phase, cur, procL, procH, stateLog>>
  /\ UNCHANGED auxVars

\* use(middleware) on the router being built, in both adapters
Use(kind) == UseWithin(kind, MaxRegistrations)

\* state(key, value) on the router being built, in both adapters
State(key, value) ==
  /\ procL.pc = "idle"
  /\ lmaps' = [lmaps EXCEPT ![LTop.appState] = Put(@, key, value)]
  /\ hmaps' = [hmaps EXCEPT ![HTop.appState] = Put(@, key, value)]
  /\ stateLog' = Put(stateLog, key,
                     [value |-> value, late |-> phase = "serve"])
  /\ UNCHANGED <<lrouters, hrouters, hroutes, hmws, phase, cur, procL, procH>>
  /\ UNCHANGED auxVars

Registered(def) ==
  \E k \in 1..Len(hroutes) :
     /\ hroutes[k].method = def.method
     /\ hroutes[k].handler = def.handler
     /\ hroutes[k].q = def.path

\* get / post / put / delete / patch (path, handler, schema) on the router
\* being built, in both adapters
\* q and chain are history: the path as registered and the prefixes of the
\* groups open at the call
AddRouteWithin(def, limit) ==
  /\ phase = "boot"
  /\ Registrations < limit
  /\ ~Registered(def)
  /\ LET id == Len(hroutes) + 1
         grp == Depth > 1
         lroute == [method |-> def.method, path |-> def.path, handler |-> def.handler,
                    schema |-> def.schema, state |-> 0, id |-> id, grp |-> grp,
                    q |-> def.path, chain |-> Chain]
         hroute == [method |-> def.method, path |-> JoinPaths(HTop.prefix, def.path),
                    handler |-> def.handler, schema |-> def.schema,
                    state |-> HTop.appState, id |-> id, grp |-> grp,
                    q |-> def.path, chain |-> Chain]
     IN /\ lrouters' = ReplaceTop(lrouters,
                         [LTop EXCEPT !.routes[def.method] = Append(@, lroute)])
        /\ hroutes' = Append(hroutes, hroute)
  /\ UNCHANGED <<lmaps, hrouters, hmws, hmaps, phase, cur, procL, procH, stateLog>>
  /\ UNCHANGED auxVars

AddRoute(def) == AddRouteWithin(def, MaxRegistrations)


\* groupRouter.appState = this.appState
LegacyGroupAppState(parent) == parent.appState

\* a group router built on a copy of the parent's Map
HonoGroupAppState_Snapshot(parent) == parent.appState + 1

\* new HonoRouterAdapter(this.rootState, groupPrefix): the Map the group
\* router reaches through its rootState
HonoGroupAppState(parent) == parent.appState

\* entry of group(prefix, callback): the group router is created and the
\* callback starts registering on it
GroupBeginWithin(prefix, limit) ==
  /\ phase = "boot"
  /\ Registrations < limit
  /\ LET lref == LegacyGroupAppState(LTop)
         href == HonoGroupAppState(HTop)
     IN /\ lrouters' = Append(lrouters,
                         [routes |-> NoRoutes, middlewares |-> LTop.middlewares,
                          appState |-> lref, prefix |-> prefix])
        /\ lmaps' = IF lref \in DOMAIN lmaps THEN lmaps
                    ELSE (lref :> lmaps[LTop.appState]) @@ lmaps
        /\ hrouters' = Append(hrouters,
                         [prefix |-> JoinPaths(HTop.prefix, prefix), appState |-> href])
        /\ hmaps' = IF href \in DOMAIN hmaps THEN hmaps
                    ELSE (href :> hmaps[HTop.appState]) @@ hmaps
  /\ UNCHANGED <<hroutes, hmws, phase, cur, procL, procH, stateLog>>
  /\ UNCHANGED auxVars

GroupBegin(prefix) == GroupBeginWithin(prefix, MaxRegistrations)

\* route.path of a group route as merged into the parent
Prefixed(prefix, routes) ==
  [k \in 1..Len(routes) |-> [routes[k] EXCEPT !.path = Concat(prefix, @)]]

\* the callback returns: the legacy adapter merges the group's routes into
\* the parent, prefixed; the Hono adapter has nothing left to do
GroupEnd ==
  /\ phase = "boot"
  /\ Depth > 1
  /\ LET parent == lrouters[Depth - 1]
         merged == [parent EXCEPT !.routes =
                      [m \in Methods |-> parent.routes[m]
                                         \o Prefixed(LTop.prefix, LTop.routes[m])]]
     IN lrouters' = Append(SubSeq(lrouters, 1, Depth - 2), merged)
  /\ hrouters' = SubSeq(hrouters, 1, Depth - 1)
  /\ UNCHANGED <<lmaps, hroutes, hmws, hmaps, phase, cur, procL, procH, stateLog>>
  /\ UNCHANGED auxVars

\* ------------------------------------------------ middleware and handlers
\* the result of calling one middleware: [result, resp, ctx, error]
RunMiddleware(kind, ctx, request) ==
  CASE kind = "preflight" /\ request.method = "OPTIONS" ->
         LET headers == Put(ctx.set.headers, "x-preflight-source", "middleware")
         IN [result |-> "response",
             resp |-> [status |-> 204, headers |-> headers, body |-> NullBody],
             ctx |-> [ctx EXCEPT !.set.headers = headers],
             error |-> PlainError("")]
    [] kind = "deny" ->
         [result |-> "response",
          resp |-> [status |-> 403, headers |-> NoHeaders, body |-> TextBody("denied")],
          ctx |-> ctx, error |-> PlainError("")]
    [] kind = "tag" ->
         [result |-> "undefined", resp |-> NoResponse,
          ctx |-> [ctx EXCEPT !.set.status = 202,
                              !.set.headers = Put(Put(@, "x-tag", "middleware"),
                                                  "content-type", "text/html")],
          error |-> PlainError("")]
    [] kind = "throw" ->
         [result |-> "throw", resp |-> NoResponse, ctx |-> ctx,
          error |-> PlainError("boom")]
    [] OTHER ->
         [result |-> "undefined", resp |-> NoResponse, ctx |-> ctx,
          error |-> PlainError("")]

\* the result of calling a route handler: [result, value, resp, ctx, error]
RunHandler(kind, ctx) ==
  CASE kind = "raw" ->
         [result |-> "response", value |-> JsUndefined,
          resp |-> [status |-> 200, headers |-> ("x-raw" :> "handler"),
                    body |-> TextBody("raw")],
          ctx |-> [ctx EXCEPT !.set.status = 201,
                              !.set.headers = Put(@, "set-cookie", "token=abc; HttpOnly")],
          error |-> PlainError("")]
    [] kind = "created" ->
         [result |-> "value", value |-> JsObject("ok" :> JsString("yes")),
          resp |-> NoResponse,
          ctx |-> [ctx EXCEPT !.set.status = 201,
                              !.set.headers = Put(@, "set-cookie", "token=abc; HttpOnly")],
          error |-> PlainError("")]
    [] kind = "throw" ->
         [result |-> "throw", value |-> JsUndefined, resp |-> NoResponse, ctx |-> ctx,
          error |-> PlainError("boom")]
    [] kind = "missing" ->
         [result |-> "throw", value |-> JsUndefined, resp |-> NoResponse, ctx |-> ctx,
          error |-> NotFoundError("Feed not found")]
    [] kind = "forbid" ->
         [result |-> "throw", value |-> JsUndefined, resp |-> NoResponse, ctx |-> ctx,
          error |-> ForbiddenError("Permission denied")]
    [] OTHER ->
         [result |-> "value",
          value |-> [params |-> ctx.params, query |-> ctx.query, store |-> ctx.store,
                     body |-> ctx.body],
          resp |-> NoResponse, ctx |-> ctx, error |-> PlainError("")]

\* the value wrapped in a success envelope and sent with status 200
PlainResponse_Envelope(ctx, value) ==
  [status |-> 200,
   headers |-> Put(ctx.set.headers, "content-type", "application/json"),
   body |-> JsonBody([success |-> TRUE, data |-> value])]

\* new Response(JSON.stringify(result), { status: context.set.status, headers })
PlainResponse(ctx, value) ==
  [status |-> ctx.set.status,
   headers |-> Put(ctx.set.headers, "content-type", "application/json"),
   body |-> JsonBody(value)]

\* a Response returned by the handler rebuilt with the status and the
\* headers of context.set
HandlerResponse_ApplySet(r) ==
  IF r.result = "response"
  THEN [status |-> r.ctx.set.status, headers |-> r.ctx.set.headers @@ r.resp.headers,
        body |-> r.resp.body]
  ELSE PlainResponse(r.ctx, r.value)

\* what handle() returns for a handler result that is not a throw
HandlerResponse(r) ==
  IF r.result = "response" THEN r.resp ELSE PlainResponse(r.ctx, r.value)

\* the instanceof test of the chain never succeeding
IsResponse_Never(r) == FALSE

\* result instanceof Response
IsResponse(r) == r.result = "response"

\* history: the middleware entry that returned a Response, if one did
Answered(p, r, mw) == IF r.result = "response" THEN [p EXCEPT !.answered = mw.id] ELSE p

\* the call returns resp; its local requestId is dead from here on
Done(p, resp) == [p EXCEPT !.pc = "done", !.resp = resp, !.rid = ""]

\* the error leaving handle(): the promise rejects and no Response exists
Failed_Rethrow(p, error) == [p EXCEPT !.pc = "done", !.rid = ""]

\* return handleError(error, context, requestId); handled is history: the
\* number of calls of handleError made for the request
Failed(p, error) ==
  Done([p EXCEPT !.handled = @ + 1], HandleError(error, p.rid))

\* ------------------------------------------------------- legacy adapter
LRoot == lrouters[1]

\* LegacyRouterAdapter.matchRoute: the first route of the method's list whose
\* pattern accepts the path
LegacyMatchRoute(routes, method, pathname) ==
  LET list == IF method \in Methods THEN routes[method] ELSE <<>>
      hits == { k \in 1..Len(list) : LegacyExtractParams(list[k].path, pathname).matched }
  IN IF hits = {} THEN [found |-> FALSE, route |-> NoRoute, params |-> NoParams]
     ELSE LET k == CHOOSE x \in hits : \A y \in hits : x <= y
          IN [found |-> TRUE, route |-> list[k],
              params |-> LegacyExtractParams(list[k].path, pathname).params]

\* LegacyRouterAdapter.createContext
LegacyCreateContext(request, params) ==
  [built |-> TRUE, params |-> params, query |-> LegacyParseQuery(request.search),
   headers |-> request.headers, body |-> JsObject(NoFields),
   store |-> lmaps[LRoot.appState],
   set |-> [status |-> 200, headers |-> NoHeaders]]

\* LegacyRouterAdapter.handle from matchRoute up to the first middleware
LegacyDispatch(p, request) ==
  LET match == LegacyMatchRoute(LRoot.routes, request.method, request.pathname)
      context == LegacyCreateContext(request, match.params)
      decoded == IF DecodesBody(request.method)
                 THEN LegacyParseBody(request.payload)
                 ELSE Decoded(context.body)
      ctx == [context EXCEPT !.body = decoded.body]
      validation == LegacyValidateSchema(match.route.schema, ctx.body)
      q == [p EXCEPT !.route = match.route, !.ctx = ctx,
                     !.decoded = DecodesBody(request.method) /\ decoded.ok,
                     !.bodyUsed = DecodesBody(request.method)
                                  /\ LegacyReadsBody(request.payload)]
  IN IF ~match.found
     THEN Done(p, LegacyNotFoundResponse(request.method, request.pathname, p.rid))
     ELSE IF ~decoded.ok
     THEN Failed([q EXCEPT !.ctx = context],
                 ValidationError("Invalid request body format", <<>>))
     ELSE IF match.route.schema # NoSchema /\ ~validation.valid
     THEN Failed(q, ValidationError("Validation failed", Details(validation.errors)))
     ELSE [q EXCEPT !.pc = IF LRoot.middlewares = <<>> THEN "handler" ELSE "mw",
                    !.i = 1]

\* a handle() that passes requests of every method through the chain before
\* it looks for a route
LegacyHandle_ChainFirst ==
  /\ procL.pc = "start"
  /\ \E rid \in RequestIds :
       LET p == [procL EXCEPT !.rid = rid]
       IN procL' =
            IF LRoot.middlewares = <<>> THEN LegacyDispatch(p, cur)
            ELSE [p EXCEPT !.pc = "pre", !.i = 1,
                           !.ctx = LegacyCreateContext(cur, NoParams)]
  /\ UNCHANGED <<lrouters, lmaps, hrouters, hroutes, hmws, hmaps, phase, cur, procH, stateLog>>
  /\ UNCHANGED auxVars

\* handle(request, env) of the legacy adapter up to its first await on a
\* middleware or on the handler
LegacyHandle ==
  /\ procL.pc = "start"
  /\ \E rid \in RequestIds :
       LET p == [procL EXCEPT !.rid = rid]
       IN procL' =
            IF cur.method = "OPTIONS"
            THEN IF LRoot.middlewares = <<>> THEN LegacyDispatch(p, cur)
                 ELSE [p EXCEPT !.pc = "pre", !.i = 1,
                                !.ctx = LegacyCreateContext(cur, NoParams)]
            ELSE LegacyDispatch(p, cur)
  /\ UNCHANGED <<lrouters, lmaps, hrouters, hroutes, hmws, hmaps, phase, cur, procH, stateLog>>
  /\ UNCHANGED auxVars

\* one iteration of the loop of LegacyRouterAdapter.runMiddlewares and, when
\* the loop ends, the code of handle() that follows it
LegacyMiddleware ==
  /\ procL.pc \in {"pre", "mw"}
  /\ LET mw == LRoot.middlewares[procL.i]
         r == RunMiddleware(mw.kind, procL.ctx, cur)
         p == Answered([procL EXCEPT !.ran = Append(@, mw.id), !.ctx = r.ctx], r, mw)
     IN procL' =
          IF IsResponse(r) THEN Done(p, r.resp)
          ELSE IF r.result = "throw" THEN Failed(p, r.error)
          ELSE IF procL.i < Len(LRoot.middlewares) THEN [p EXCEPT !.i = @ + 1]
          ELSE IF procL.pc = "pre" THEN LegacyDispatch(p, cur)
          ELSE [p EXCEPT !.pc = "handler"]
  /\ UNCHANGED <<lrouters, lmaps, hrouters, hroutes, hmws, hmaps, phase, cur, procH, stateLog>>
  /\ UNCHANGED auxVars

\* route.handler(context) and the response built from its result
LegacyHandler ==
  /\ procL.pc = "handler"
  /\ LET r == RunHandler(procL.route.handler, procL.ctx)
         p == [procL EXCEPT !.hran = TRUE, !.ctx = r.ctx]
     IN procL' =
          IF r.result = "throw" THEN Failed(p, r.error)
          ELSE Done(p, HandlerResponse(r))
  /\ UNCHANGED <<lrouters, lmaps, hrouters, hroutes, hmws, hmaps, phase, cur, procH, stateLog>>
  /\ UNCHANGED auxVars


\* --------------------------------------------------------- Hono adapter
\* the first route added to the Hono app whose method and pattern accept the
\* request: its handler answers, so no later route is reached
HonoMatchRoute(routes, method, pathname) ==
  LET hits == { k \in 1..Len(routes) :
                  routes[k].method = method /\ HonoPathMatches(routes[k].path, pathname) }
  IN IF hits = {} THEN [found |-> FALSE, route |-> NoRoute]
     ELSE [found |-> TRUE, route |-> routes[CHOOSE x \in hits : \A y \in hits : x <= y]]

\* the context literal of wrappedHandler
HonoCreateContext(request, route) ==
  [built |-> TRUE, params |-> HonoExtractParams(route.path, request.pathname),
   query |-> HonoParseQuery(request.search),
   headers |-> request.headers, body |-> JsNull,
   store |-> hmaps[route.state],
   set |-> [status |-> 200, headers |-> NoHeaders]]

\* a wrappedHandler that enters the middleware chain before it looks at the
\* outcome of decoding and of validation
HonoWrappedHandler_ChainFirst(p, request, route) ==
  LET context == HonoCreateContext(request, route)
      decoded == IF DecodesBody(request.method)
                 THEN HonoParseBody(request.payload)
                 ELSE Decoded(context.body)
      ctx == IF decoded.ok THEN [context EXCEPT !.body = decoded.body] ELSE context
  IN [p EXCEPT !.route = route, !.ctx = ctx,
               !.decoded = DecodesBody(request.method) /\ decoded.ok,
               !.pc = IF hmws = <<>> THEN "handler" ELSE "mw", !.i = 1]

\* wrappedHandler of HonoRouterAdapter.addRoute up to the first middleware
HonoWrappedHandler(p, request, route) ==
  LET context == HonoCreateContext(request, route)
      decoded == IF DecodesBody(request.method)
                 THEN HonoParseBody(request.payload)
                 ELSE Decoded(context.body)
      ctx == [context EXCEPT !.body = decoded.body]
      validation == HonoValidateSchema(route.schema, ctx.body)
      q == [p EXCEPT !.route = route, !.ctx = ctx,
                     !.decoded = DecodesBody(request.method) /\ decoded.ok]
  IN IF ~decoded.ok
     THEN Failed([q EXCEPT !.ctx = context],
                 ValidationError("Invalid request body format", <<>>))
     ELSE IF route.schema # NoSchema /\ ~validation.valid
     THEN Failed(q, ValidationError("Validation failed", Details(validation.errors)))
     ELSE [q EXCEPT !.pc = IF hmws = <<>> THEN "handler" ELSE "mw", !.i = 1]

\* handle(request, env) of the Hono adapter: app.fetch runs the root handlers
\* of initializeRootHandlers, then the matched route's wrappedHandler up to
\* its first await on a middleware or on the handler
HonoHandle ==
  /\ procH.pc = "start"
  /\ procL.pc = "done"
  /\ \E rid \in RequestIds :
       LET p == procH
           match == HonoMatchRoute(hroutes, cur.method, cur.pathname)
       IN procH' =
            IF cur.method = "OPTIONS" THEN Done(p, BuildPreflightResponse(cur))
            ELSE IF ~match.found
            THEN Done([p EXCEPT !.rid = rid], BuildNotFoundResponse(cur, rid))
            ELSE HonoWrappedHandler([p EXCEPT !.rid = rid], cur, match.route)
  /\ UNCHANGED <<lrouters, lmaps, hrouters, hroutes, hmws, hmaps, phase, cur, procL, stateLog>>
  /\ UNCHANGED auxVars

\* one iteration of the middleware loop of wrappedHandler
HonoMiddleware ==
  /\ procH.pc = "mw"
  /\ LET mw == hmws[procH.i]
         r == RunMiddleware(mw.kind, procH.ctx, cur)
         p == Answered([procH EXCEPT !.ran = Append(@, mw.id), !.ctx = r.ctx], r, mw)
     IN procH' =
          IF IsResponse(r) THEN Done(p, r.resp)
          ELSE IF r.result = "throw" THEN Failed(p, r.error)
          ELSE IF procH.i < Len(hmws) THEN [p EXCEPT !.i = @ + 1]
          ELSE [p EXCEPT !.pc = "handler"]
  /\ UNCHANGED <<lrouters, lmaps, hrouters, hroutes, hmws, hmaps, phase, cur, procL, stateLog>>
  /\ UNCHANGED auxVars

\* handler(context) in wrappedHandler and the response built from its result
HonoHandler ==
  /\ procH.pc = "handler"
  /\ LET r == RunHandler(procH.route.handler, procH.ctx)
         p == [procH EXCEPT !.hran = TRUE, !.ctx = r.ctx]
     IN procH' =
          IF r.result = "throw" THEN Failed(p, r.error)
          ELSE Done(p, HandlerResponse(r))
  /\ UNCHANGED <<lrouters, lmaps, hrouters, hroutes, hmws, hmaps, phase, cur, procL, stateLog>>
  /\ UNCHANGED auxVars

\* ------------------------------------------------------------- driver
\* a request arrives and is handed to handle() of both adapters; the two
\* adapters share no state and the legacy adapter is let answer first
Receive(request) ==
  /\ Depth = 1
  /\ procL.pc = "idle"
  /\ procH.pc = "idle"
  /\ phase' = "serve"
  /\ cur' = request
  /\ procL' = [Idle EXCEPT !.pc = "start"]
  /\ procH' = [Idle EXCEPT !.pc = "start"]
  /\ UNCHANGED <<lrouters, lmaps, hrouters, hroutes, hmws, hmaps, stateLog>>
  /\ UNCHANGED auxVars

\* both adapters have answered: the request is over
Finish ==
  /\ procL.pc = "done"
  /\ procH.pc = "done"
  /\ cur' = NoReq
  /\ procL' = Idle
  /\ procH' = Idle
  /\ UNCHANGED <<lrouters, lmaps, hrouters, hroutes, hmws, hmaps, phase, stateLog>>
  /\ UNCHANGED auxVars

Next ==
  \/ \E kind \in MwKinds : Use(kind)
  \/ \E key \in StateKeys, value \in StateValues : State(key, value)
  \/ \E def \in RouteDefs : AddRoute(def)
  \/ \E prefix \in GroupPrefixes : GroupBegin(prefix)
  \/ GroupEnd
  \/ \E request \in Requests : Receive(request)
  \/ LegacyHandle
  \/ LegacyMiddleware
  \/ LegacyHandler
  \/ HonoHandle
  \/ HonoMiddleware
  \/ HonoHandler
  \/ Finish

Spec == Init /\ [][Next]_vars

TypeOK ==
  /\ procL.pc \in {"idle", "start", "pre", "mw", "handler", "done"}
  /\ procH.pc \in {"idle", "start", "mw", "handler", "done"}
  /\ phase \in {"boot", "serve"}
  /\ Len(lrouters) = Len(hrouters)

\* --------------------------------------------------------- properties
BothDone == procL.pc = "done" /\ procH.pc = "done"

\* a response body with the request id of an error envelope blanked
MaskRequestId(body) ==
  IF body.kind = "json" /\ DOMAIN body.json = {"success", "error"}
  THEN [body EXCEPT !.json.error.requestId = ""]
  ELSE body

RepeatedKeys(search) ==
  \E j, k \in 1..Len(search) : j # k /\ search[j].key = search[k].key

\* C1: given the same registrations and the same request, the legacy and the
\* Hono adapter answer with the same status and the same body (the random
\* request id apart) to an unmatched route, to an OPTIONS preflight, to a
\* route requested with or without a trailing slash and to a query string
\* with repeated keys.
C1_AdapterParity ==
  (/\ BothDone
   /\ \/ cur.method = "OPTIONS"
      \/ procL.route = NoRoute /\ procH.route = NoRoute
      \/ cur.method = "GET" /\ cur.pathname \in {TagPath, TagPath \o << <<>> >>}
      \/ RepeatedKeys(cur.search))
  => /\ procL.resp.status = procH.resp.status
     /\ MaskRequestId(procL.resp.body) = MaskRequestId(procH.resp.body)

\* the ids of a middleware list, in list order
Ids(mws) == [k \in 1..Len(mws) |-> mws[k].id]

IsPrefix(a, b) == Len(a) <= Len(b) /\ a = SubSeq(b, 1, Len(a))

Increasing(ids) == \A j, k \in 1..Len(ids) : j < k => ids[j] < ids[k]

KindOf(mws, id) == (CHOOSE m \in {mws[k] : k \in 1..Len(mws)} : m.id = id).kind

ChainOK(p, mws) ==
  /\ IsPrefix(p.ran, Ids(mws))
  /\ Increasing(p.ran)
  /\ p.answered # 0 =>
       /\ p.pc = "done"
       /\ ~p.hran
       /\ p.ran[Len(p.ran)] = p.answered
       /\ p.resp = RunMiddleware(KindOf(mws, p.answered), p.ctx, cur).resp
  /\ p.hran => p.answered = 0 /\ p.ran = Ids(mws)

\* C2: within one request the middleware entries run in the order in which
\* use() registered them; once an entry returns a Response no later entry
\* and not the handler runs, and handle() returns that Response unchanged.
C2_MiddlewareOrder ==
  /\ ChainOK(procL, LRoot.middlewares)
  /\ ChainOK(procH, hmws)

\* the second of two entries answers a request to a registered route, in
\* both adapters
C2_Witness ==
  /\ BothDone
  /\ procL.route # NoRoute /\ procL.ran = <<1, 2>> /\ procL.answered = 2
  /\ procH.route # NoRoute /\ procH.ran = <<1, 2>> /\ procH.answered = 2

LateState == [k \in {x \in DOMAIN stateLog : stateLog[x].late} |-> stateLog[k].value]

SeesLateState(p) ==
  (p.ctx.built /\ p.route.grp) =>
     \A k \in DOMAIN LateState :
        k \in DOMAIN p.ctx.store /\ p.ctx.store[k] = LateState[k]

\* C3: a state(key, value) call made on the parent router after group() has
\* returned is visible in ctx.store[key] to every later request routed to a
\* handler registered inside that group, in both adapters.
C3_LateStateVisible == SeesLateState(procL) /\ SeesLateState(procH)

\* the handler of a group route has run in both adapters after such a call
C3_Witness ==
  /\ DOMAIN LateState # {}
  /\ procL.hran /\ procL.route.grp
  /\ procH.hran /\ procH.route.grp

IsPreflight(resp, request) ==
  /\ resp.status = 204
  /\ {"access-control-allow-methods", "access-control-allow-headers",
      "access-control-max-age", "access-control-allow-credentials",
      "access-control-allow-origin"} \subseteq DOMAIN resp.headers
  /\ resp.headers["access-control-allow-methods"] = "GET, POST, PUT, DELETE, PATCH, OPTIONS"
  /\ resp.headers["access-control-allow-headers"] = "content-type, authorization, x-csrf-token"
  /\ resp.headers["access-control-max-age"] = "600"
  /\ resp.headers["access-control-allow-credentials"] = "true"
  /\ resp.headers["access-control-allow-origin"] =
       (IF "origin" \in DOMAIN request.headers THEN request.headers["origin"] ELSE "*")

\* C4: every OPTIONS request, whether or not its path is registered and
\* whatever middleware is registered, is answered 204 with the fixed
\* Access-Control headers, by either adapter.
C4_PreflightAlways ==
  \A p \in {procL, procH} :
     (cur.method = "OPTIONS" /\ p.pc = "done") => IsPreflight(p.resp, cur)

\* the entries of mws that return a Response for the request
Answering(mws, request) ==
  { k \in 1..Len(mws) : RunMiddleware(mws[k].kind, NoCtx, request).result = "response" }

FromMiddleware(p, mws) ==
  (cur.method = "OPTIONS" /\ p.pc = "done" /\ Answering(mws, cur) # {}) =>
     LET k == CHOOSE x \in Answering(mws, cur) : \A y \in Answering(mws, cur) : x <= y
         r == RunMiddleware(mws[k].kind, NoCtx, cur).resp
     IN /\ p.resp.status = r.status
        /\ \A h \in DOMAIN r.headers :
              h \in DOMAIN p.resp.headers /\ p.resp.headers[h] = r.headers[h]

\* C5: an OPTIONS request to an unregistered path goes through the chain
\* registered with use() first: when an entry returns a Response for it,
\* that Response, with the headers the entry set, is what handle() returns,
\* in both adapters.
C5_PreflightThroughMiddleware ==
  /\ FromMiddleware(procL, LRoot.middlewares)
  /\ FromMiddleware(procH, hmws)


IsNotFound(resp, request) ==
  /\ resp.status = 404
  /\ resp.body.kind = "json"
  /\ DOMAIN resp.body.json = {"success", "error"}
  /\ resp.body.json.success = FALSE
  /\ resp.body.json.error.code = "NOT_FOUND"
  /\ resp.body.json.error.message =
       "Route " \o request.method \o " " \o Render(request.pathname) \o " not found"
  /\ resp.body.json.error.details = <<>>
  /\ Len(resp.body.json.error.requestId) > 5

LegacyUnmatched == ~LegacyMatchRoute(LRoot.routes, cur.method, cur.pathname).found

HonoUnmatched == ~HonoMatchRoute(hroutes, cur.method, cur.pathname).found

\* C6 as stated: any request whose method and path match no registered
\* route is answered 404 with the NOT_FOUND envelope naming its method and
\* path and carrying a requestId longer than 5 characters.
C6_NotFoundAnyMethod ==
  /\ (procL.pc = "done" /\ LegacyUnmatched) => IsNotFound(procL.resp, cur)
  /\ (procH.pc = "done" /\ HonoUnmatched) => IsNotFound(procH.resp, cur)

\* C6 amended: any request with a method other than OPTIONS whose method and
\* path match no registered route is answered 404 with the NOT_FOUND
\* envelope naming its method and path and carrying a requestId longer than
\* 5 characters.
C6_NotFound ==
  cur.method # "OPTIONS" =>
    /\ (procL.pc = "done" /\ LegacyUnmatched) => IsNotFound(procL.resp, cur)
    /\ (procH.pc = "done" /\ HonoUnmatched) => IsNotFound(procH.resp, cur)

\* both adapters have answered a GET for a path that no route matches
C6_Witness ==
  /\ BothDone
  /\ cur.method = "GET"
  /\ LegacyUnmatched /\ HonoUnmatched
  /\ procL.resp.status = 404 /\ procH.resp.status = 404

WithSlash(pathname) == pathname \o << <<>> >>

\* the request path P when the request is for P with one slash appended
Unslashed == DropLastSlash(cur.pathname)

SlashAppended == EndsWithSlash(cur.pathname) /\ StartsWithSlash(Unslashed)

\* the legacy adapter has dispatched the request as it dispatches P
LegacySameDispatch ==
  LET a == LegacyMatchRoute(LRoot.routes, cur.method, Unslashed)
  IN (procL.pc = "done" /\ a.found) =>
       /\ procL.route = a.route
       /\ procL.ctx.built
       /\ procL.ctx.params = a.params

\* the Hono adapter has dispatched the request as it dispatches P
HonoSameDispatch ==
  LET a == HonoMatchRoute(hroutes, cur.method, Unslashed)
  IN (procH.pc = "done" /\ a.found) =>
       /\ procH.route = a.route
       /\ procH.ctx.built
       /\ procH.ctx.params = HonoExtractParams(a.route.path, Unslashed)

\* C7 as stated: for every registered route and every request path P that
\* matches it, P and P with one trailing slash appended are dispatched to
\* the same handler with the same path parameters, in both adapters.
C7_TrailingSlashAnyPath ==
  SlashAppended => LegacySameDispatch /\ HonoSameDispatch

\* C7 amended: for every registered route and every request path P that
\* matches it and does not itself end with a slash, P and P with one
\* trailing slash appended are dispatched to the same handler with the same
\* path parameters, in both adapters.
C7_TrailingSlash ==
  (SlashAppended /\ ~EndsWithSlash(Unslashed)) =>
     LegacySameDispatch /\ HonoSameDispatch

\* a request for a registered path with a trailing slash appended has
\* reached the route's handler in both adapters
C7_Witness ==
  /\ cur.pathname = WithSlash(TagPath)
  /\ procL.hran /\ procH.hran
  /\ LegacyMatchRoute(LRoot.routes, cur.method, TagPath).found
  /\ HonoMatchRoute(hroutes, cur.method, TagPath).found

QueryKeys(search) == { search[k].key : k \in 1..Len(search) }

RECURSIVE ValuesOf(_, _)
ValuesOf(search, key) ==
  IF search = <<>> THEN <<>>
  ELSE (IF Head(search).key = key THEN <<Head(search).value>> ELSE <<>>)
       \o ValuesOf(Tail(search), key)

QueryOK(query, search) ==
  /\ DOMAIN query = QueryKeys(search)
  /\ \A key \in QueryKeys(search) :
        LET values == ValuesOf(search, key)
        IN IF Len(values) = 1 THEN query[key] = [arr |-> FALSE, vals |-> values]
           ELSE query[key] = [arr |-> TRUE, vals |-> values]

\* C8: ctx.query maps each key that occurs once in the query string to its
\* single string value and each key that occurs more than once to the list
\* of its values in URL order; both adapters compute the same map.
C8_QueryMap ==
  /\ procL.ctx.built => QueryOK(procL.ctx.query, cur.search)
  /\ procH.ctx.built => QueryOK(procH.ctx.query, cur.search)
  /\ BothDone => LegacyParseQuery(cur.search) = HonoParseQuery(cur.search)

ParamsDecoded(p) ==
  (p.ctx.built /\ p.route # NoRoute) =>
     LET routeParts == SplitParts(p.route.path)
         pathParts == SplitParts(cur.pathname)
     IN \A k \in 1..Len(routeParts) :
          (IsParam(routeParts[k]) /\ k <= Len(pathParts) /\ ~DecodeThrows(pathParts[k])) =>
             /\ ParamName(routeParts[k]) \in DOMAIN p.ctx.params
             /\ p.ctx.params[ParamName(routeParts[k])] = DecodeSeg(pathParts[k])

\* C9: for a route with a ':name' segment the handler sees in
\* ctx.params[name] the percent-decoded form of the matching path segment,
\* in both adapters.
C9_ParamsDecoded == ParamsDecoded(procL) /\ ParamsDecoded(procH)

HasField(body, key) == body.type = "object" /\ key \in DOMAIN body.fields

MissingRequired(schema, body) ==
  Cardinality({ k \in 1..Len(schema.properties) :
                  /\ ~schema.properties[k].optional
                  /\ ~HasField(body, schema.properties[k].key) })

Conforms(schema, body) ==
  \A k \in 1..Len(schema.properties) :
     /\ HasField(body, schema.properties[k].key)
     /\ body.fields[schema.properties[k].key].type = schema.properties[k].type

OnSchemaRoute(p) ==
  /\ cur.method = "POST"
  /\ p.route # NoRoute
  /\ p.route.schema.type = "object"
  /\ p.decoded

FieldMessages(resp) ==
  IF resp.body.kind = "json" /\ DOMAIN resp.body.json = {"success", "error"}
  THEN Len(resp.body.json.error.details) ELSE 0

RejectsMissing(p) ==
  (OnSchemaRoute(p) /\ MissingRequired(p.route.schema, p.ctx.body) > 0) =>
     /\ ~p.hran
     /\ p.pc = "done"
     /\ p.resp.status = 400
     /\ FieldMessages(p.resp) >= MissingRequired(p.route.schema, p.ctx.body)

Prop(key, type, optional) == [key |-> key, type |-> type, optional |-> optional]

PostSchema ==
  ObjectSchema(<< Prop("title", "string", FALSE), Prop("limit", "number", TRUE),
                  Prop("tags", "array", TRUE), Prop("draft", "boolean", FALSE) >>)

LengthSchema == ObjectSchema(<< Prop("length", "number", FALSE) >>)

ValidateSchemas == {NoSchema, FeedSchema, PostSchema, LengthSchema}

Tags == JsArray("0" :> JsString("a"))

ValidateData ==
  { JsNull,
    JsString("plain-text payload"),
    JsNumber("5"),
    JsFormData(NoFields),
    JsObject(NoFields),
    JsObject("title" :> JsString("T")),
    JsObject(("title" :> JsString("T")) @@ ("content" :> JsString("C"))),
    JsObject(("title" :> JsNumber("5")) @@ ("content" :> JsNull)),
    JsObject(("title" :> JsString("T")) @@ ("draft" :> JsString("no"))
             @@ ("limit" :> JsString("5")) @@ ("tags" :> JsString("a"))),
    JsObject(("title" :> JsString("T")) @@ ("draft" :> [JsNumber("1") EXCEPT !.type = "boolean"])
             @@ ("limit" :> JsNumber("5")) @@ ("tags" :> Tags)
             @@ ("extra" :> JsNumber("1"))),
    JsObject("length" :> JsNumber("3")) }

NoResult == [valid |-> FALSE, errors |-> <<"not called">>]

\* validateSchema(schema, data) is about to be called in both adapters
InitValidate ==
  /\ RouterInit
  /\ authCall = NoAuthCall
  /\ cookieCall = NoCookieCall
  /\ factoryCall = NoFactoryCall
  /\ inflight = NoInflight
  /\ \E schema \in ValidateSchemas, data \in ValidateData :
       schemaCall = [pc |-> "args", schema |-> schema, data |-> data,
                     hono |-> NoResult, legacy |-> NoResult]

\* the call of validateSchema of router-hono.ts returns
HonoValidateCall ==
  /\ schemaCall.pc \in {"args", "legacy"}
  /\ schemaCall' = [schemaCall EXCEPT
                      !.hono = HonoValidateSchema(schemaCall.schema, schemaCall.data),
                      !.pc = IF @ = "args" THEN "hono" ELSE "done"]
  /\ UNCHANGED <<routerVars, authCall, cookieCall, factoryCall, inflight>>

\* the call of LegacyRouterAdapter.validateSchema returns
LegacyValidateCall ==
  /\ schemaCall.pc \in {"args", "hono"}
  /\ schemaCall' = [schemaCall EXCEPT
                      !.legacy = LegacyValidateSchema(schemaCall.schema, schemaCall.data),
                      !.pc = IF @ = "args" THEN "legacy" ELSE "done"]
  /\ UNCHANGED <<routerVars, authCall, cookieCall, factoryCall, inflight>>

NextValidate == HonoValidateCall \/ LegacyValidateCall

SpecValidate == InitValidate /\ [][NextValidate]_vars

\* the declared property is an own property of the data
Present(data, prop) == data.type = "object" /\ prop.key \in DOMAIN data.fields

BasicType(v) == IF v.type = "array" THEN "array" ELSE TypeOf(v)

Mismatching(data, prop) ==
  /\ Present(data, prop)
  /\ prop.type \in {"string", "number", "boolean", "array"}
  /\ BasicType(data.fields[prop.key]) # prop.type

AbsentRequired(data, prop) == ~prop.optional /\ ~Present(data, prop)

\* one error for every mismatching and for every absent required property
ExpectedErrorCount(schema, data) ==
  Cardinality({ k \in 1..Len(schema.properties) :
                  Mismatching(data, schema.properties[k]) })
  + Cardinality({ k \in 1..Len(schema.properties) :
                    AbsentRequired(data, schema.properties[k]) })

Reports(result) ==
  /\ Len(result.errors) = ExpectedErrorCount(schemaCall.schema, schemaCall.data)
  /\ result.valid = (result.errors = <<>>)
  /\ schemaCall.schema = NoSchema => result.valid

\* C11: validateSchema(schema, data) reports one error for every declared
\* property present with a mismatching basic type and one for every required
\* declared property that is absent, all of them collected; undeclared keys
\* of the data produce no error; with no schema the result is valid; and
\* the Hono and the legacy validator return the same verdict and the same
\* error list for the same schema and data.
C11_ValidateSchema ==
  schemaCall.pc = "done" =>
     /\ Reports(schemaCall.hono)
     /\ Reports(schemaCall.legacy)
     /\ schemaCall.hono = schemaCall.legacy

\* ----------------------------------------- dispatch of a matched route
\* An application whose routes all sit on /body, one per method, behind
\* middleware that writes to context.set or throws.
BodyPath == Path1(Lit("body"))

DispatchRouteDefs ==
  { [method |-> "POST", path |-> BodyPath, handler |-> "echo", schema |-> NoSchema],
    [method |-> "PUT", path |-> BodyPath, handler |-> "throw", schema |-> NoSchema],
    [method |-> "PATCH", path |-> BodyPath, handler |-> "created", schema |-> NoSchema],
    [method |-> "GET", path |-> BodyPath, handler |-> "raw", schema |-> NoSchema],
    [method |-> "DELETE", path |-> BodyPath, handler |-> "echo", schema |-> NoSchema] }

\* middleware bodies: "tag" writes a status and a header to context.set and
\* returns undefined, "throw" throws
DispatchMwKinds == {"tag", "throw"}

MalformedJson ==
  [contentType |-> "application/json", wellFormed |-> FALSE, json |-> JsUndefined,
   form |-> NoFields, text |-> "{title"]

TextPayload ==
  [contentType |-> "text/plain", wellFormed |-> TRUE, json |-> JsUndefined,
   form |-> NoFields, text |-> "plain-text payload"]

FormPayload(contentType, wellFormed) ==
  [contentType |-> contentType, wellFormed |-> wellFormed, json |-> JsUndefined,
   form |-> IF wellFormed THEN "title" :> JsString("T") ELSE NoFields,
   text |-> "title=T"]

DispatchPayloads ==
  { JsonPayload(JsObject("title" :> JsString("T")), "{title:T}"),
    MalformedJson,
    TextPayload,
    [TextPayload EXCEPT !.contentType = "application/octet-stream"],
    FormPayload("application/x-www-form-urlencoded", TRUE),
    FormPayload("multipart/form-data", FALSE) }

DispatchRequests ==
  { Request("POST", BodyPath, <<>>, NoHeaders, b) : b \in DispatchPayloads }
  \cup { Request(m, BodyPath, <<>>, NoHeaders, b) :
           m \in {"PUT", "PATCH"}, b \in {MalformedJson, TextPayload} }
  \cup { Request("DELETE", BodyPath, <<>>, NoHeaders, b) :
           b \in {MalformedJson, NoPayload} }
  \cup { Request(m, BodyPath, <<>>, NoHeaders, NoPayload) : m \in {"GET", "OPTIONS"} }

NextDispatch ==
  \/ \E kind \in DispatchMwKinds : Use(kind)
  \/ \E def \in DispatchRouteDefs : AddRoute(def)
  \/ \E request \in DispatchRequests : Receive(request)
  \/ LegacyHandle
  \/ LegacyMiddleware
  \/ LegacyHandler
  \/ HonoHandle
  \/ HonoMiddleware
  \/ HonoHandler
  \/ Finish

SpecDispatch == Init /\ [][NextDispatch]_vars

\* the request went through the decode step of a matched route
Matched(p) == p.pc = "done" /\ p.route # NoRoute

UnsupportedType == DecodesBody(cur.method) /\ ~LegacyReadsBody(cur.payload)

EmptyBodySeen(p) ==
  Matched(p) /\ UnsupportedType =>
    /\ p.decoded
    /\ p.hran => p.ctx.body = JsObject(NoFields)

\* C12: a POST, PUT or PATCH request whose Content-Type is none of
\* application/json, application/x-www-form-urlencoded and
\* multipart/form-data is decoded without an error and its handler sees
\* ctx.body equal to {}, in the legacy adapter and in the Hono adapter.
C12_UnsupportedTypeEmptyBody == EmptyBodySeen(procL) /\ EmptyBodySeen(procH)

Undecodable ==
  DecodesBody(cur.method) /\ LegacyReadsBody(cur.payload) /\ ~cur.payload.wellFormed

ErrorCode(resp) ==
  IF resp.body.kind = "json" /\ DOMAIN resp.body.json = {"success", "error"}
  THEN resp.body.json.error.code ELSE ""

DecodeFailureAnswered(p) ==
  /\ Matched(p) /\ Undecodable =>
       /\ p.resp.status = 400
       /\ ErrorCode(p.resp) = "VALIDATION_ERROR"
       /\ p.handled = 1
       /\ ~p.hran
  /\ p.hran /\ DecodesBody(cur.method) => p.decoded /\ ~Undecodable

\* C13: when decoding the body of a POST, PUT or PATCH request fails, the
\* request is answered through handleError with a validation failure
\* (status 400, handleError called once) and the route handler is not
\* invoked; a handler that runs for such a method runs on a decoded body.
C13_DecodeFailure == DecodeFailureAnswered(procL) /\ DecodeFailureAnswered(procH)

\* both adapters have answered 400 a PUT request whose JSON body is
\* malformed, past a registered middleware entry and without running the
\* handler
C13_Witness ==
  /\ BothDone
  /\ cur.method = "PUT"
  /\ cur.payload = MalformedJson
  /\ hmws # <<>>
  /\ \A p \in {procL, procH} :
       p.route.handler = "throw" /\ p.resp.status = 400 /\ ~p.hran /\ p.handled = 1

NoDecodeStep(p) ==
  Matched(p) /\ cur.method \in {"GET", "DELETE"} =>
    /\ ~p.decoded
    /\ ~p.bodyUsed
    /\ p.ctx.body \in {JsNull, JsObject(NoFields)}
    /\ p.resp.status # 400
    /\ ErrorCode(p.resp) # "VALIDATION_ERROR"

\* C14: for a GET or DELETE request no decode step runs, whatever
\* Content-Type and body the request carries: the body is not read, ctx.body
\* keeps the value the context was created with and the request is never
\* answered with a decode failure.
C14_DecodeOnlyPostPutPatch == NoDecodeStep(procL) /\ NoDecodeStep(procH)

\* a DELETE request carrying malformed JSON has reached the handler in both
\* adapters and was answered 200
C14_Witness ==
  /\ BothDone
  /\ cur.method = "DELETE"
  /\ cur.payload = MalformedJson
  /\ \A p \in {procL, procH} : p.hran /\ p.resp.status = 200 /\ ~p.decoded

BodyUnconsumed(p) ==
  p.pc \in {"mw", "handler", "done"} /\ p.route # NoRoute => ~p.bodyUsed

\* C15: in both adapters the decode step reads a clone of the request, so
\* once it is over the body of ctx.request, the request handed to
\* middleware and handler, has not been consumed.
C15_BodyStillReadable == BodyUnconsumed(procL) /\ BodyUnconsumed(procH)

MwThrew(p, mws) == p.ran # <<>> /\ KindOf(mws, p.ran[Len(p.ran)]) = "throw"

HandlerThrew(p) == p.hran /\ p.route.handler = "throw"

ErrorAnswers == { HandleError(PlainError("boom"), id) : id \in RequestIds }

CaughtOnce(p, mws) ==
  /\ p.handled <= 1
  /\ p.pc = "done" => p.resp # NoResponse
  /\ MwThrew(p, mws) =>
       p.pc = "done" /\ p.handled = 1 /\ ~p.hran /\ p.resp \in ErrorAnswers
  /\ HandlerThrew(p) =>
       p.pc = "done" /\ p.handled = 1 /\ p.resp \in ErrorAnswers

\* C16: handle() ends with a Response for every request; handleError is
\* called at most once per request; when a middleware entry throws, the
\* call ends there with the result of handleError for that error, no later
\* entry and no handler having run; when the handler throws, the call ends
\* with the result of handleError for that error.
C16_ErrorsCaughtOnce ==
  CaughtOnce(procL, LRoot.middlewares) /\ CaughtOnce(procH, hmws)

\* both adapters have answered 500 a request to a matched route whose first
\* middleware entry threw, the second entry never having run
C16_Witness ==
  /\ BothDone
  /\ Len(hmws) = 2
  /\ Len(LRoot.middlewares) = 2
  /\ \A p \in {procL, procH} :
       /\ p.route # NoRoute
       /\ p.ran = <<1>>
       /\ p.handled = 1
       /\ p.resp.status = 500
       /\ ~p.hran

ReturnedResponse(p) == p.hran /\ p.pc = "done" /\ p.route.handler = "raw"

RawKept(p) ==
  ReturnedResponse(p) =>
    /\ p.resp = RunHandler("raw", p.ctx).resp
    /\ p.resp.status = 200
    /\ DOMAIN p.resp.headers = {"x-raw"}

\* C17: when the handler returns a Response, handle() returns that Response
\* unchanged: its status and its headers are the ones the handler gave it,
\* and neither the status nor the headers (Set-Cookie included) written to
\* ctx.set by the middleware and the handler appear on it.
C17_ResponseReturnedAsIs == RawKept(procL) /\ RawKept(procH)

\* both adapters have returned the handler's Response although a middleware
\* entry and the handler wrote a status, a header and a Set-Cookie entry to
\* ctx.set
C17_Witness ==
  /\ BothDone
  /\ \A p \in {procL, procH} :
       /\ ReturnedResponse(p)
       /\ p.ran = <<1>>
       /\ p.ctx.set.status = 201
       /\ DOMAIN p.ctx.set.headers = {"x-tag", "content-type", "set-cookie"}
       /\ p.resp.status = 200

ReturnedValue(p) ==
  p.hran /\ p.pc = "done" /\ p.route.handler \in {"echo", "created"}

ValueSerialized(p) ==
  ReturnedValue(p) =>
    /\ p.resp.status = p.ctx.set.status
    /\ (p.ran = <<>> /\ p.route.handler = "echo") => p.resp.status = 200
    /\ DOMAIN p.resp.headers = DOMAIN p.ctx.set.headers \cup {"content-type"}
    /\ \A h \in DOMAIN p.ctx.set.headers \ {"content-type"} :
         p.resp.headers[h] = p.ctx.set.headers[h]
    /\ p.resp.headers["content-type"] = "application/json"
    /\ p.resp.body = JsonBody(RunHandler(p.route.handler, p.ctx).value)

\* C18: when the handler returns a plain value, the response has the status
\* of ctx.set.status (200 when nothing changed it), every header of
\* ctx.set.headers with Content-Type replaced by application/json, and a
\* body that is the JSON text of the returned value itself.
C18_PlainValueResponse == ValueSerialized(procL) /\ ValueSerialized(procH)

\* both adapters have answered 201 a PATCH request whose handler returned a
\* plain value after a middleware entry had set Content-Type to text/html
C18_Witness ==
  /\ BothDone
  /\ cur.method = "PATCH"
  /\ \A p \in {procL, procH} :
       /\ ReturnedValue(p)
       /\ p.ran = <<1>>
       /\ p.ctx.set.headers["content-type"] = "text/html"
       /\ p.resp.status = 201
       /\ p.resp.headers["set-cookie"] = p.ctx.set.headers["set-cookie"]
       /\ p.resp.headers["content-type"] = "application/json"

\* ------------------------------------------------------------ deriveAuth
\* The Authorization header is <<scheme, credentials>>, its text split at
\* the first space, or <<>> when the request has none. A token is a
\* non-empty string; "" stands for undefined. A profile is what jwt.verify
\* resolves to: [ok, id], ok FALSE for null; an id is [type, chars, num],
\* chars the characters of a string id. context.uid and context.username
\* are <<>> while undefined.

\* authHeader?.startsWith('Bearer ') ? authHeader.substring(7) : undefined
HeaderToken(authHeader) ==
  IF authHeader # <<>> /\ authHeader[1] = "Bearer" THEN authHeader[2] ELSE ""

\* the fallback never taken
FallsBack_Never(profile, cookieToken, headerToken) == FALSE

\* the fallback taken without comparing the two tokens
FallsBack_SameToken(profile, cookieToken, headerToken) == ~profile.ok /\ cookieToken # ""

\* !profile && cookieToken && cookieToken !== headerToken
FallsBack(profile, cookieToken, headerToken) ==
  ~profile.ok /\ cookieToken # "" /\ cookieToken # headerToken

\* Number.parseInt(chars, 10) for chars without sign and leading blanks:
\* the value of the longest prefix of decimal digits, NaN when it is empty
RECURSIVE ParseInt(_)
ParseInt(chars) ==
  LET digit == ("0" :> 0) @@ ("1" :> 1) @@ ("2" :> 2) @@ ("3" :> 3) @@ ("4" :> 4)
               @@ ("5" :> 5) @@ ("6" :> 6) @@ ("7" :> 7) @@ ("8" :> 8) @@ ("9" :> 9)
      last == chars[Len(chars)]
      init == ParseInt(SubSeq(chars, 1, Len(chars) - 1))
  IN IF chars = <<>> THEN [finite |-> FALSE, value |-> 0, whole |-> TRUE]
     ELSE IF ~init.whole \/ last \notin DOMAIN digit THEN [init EXCEPT !.whole = FALSE]
     ELSE [finite |-> TRUE, value |-> init.value * 10 + digit[last], whole |-> TRUE]

\* an id that is not a number coerced to 0
ProfileId_Coerced(id) ==
  IF id.type = "number" THEN [finite |-> TRUE, value |-> id.num, whole |-> TRUE]
  ELSE [finite |-> TRUE, value |-> 0, whole |-> TRUE]

\* typeof raw === 'number' ? raw : typeof raw === 'string' ? parseInt : NaN
ProfileId(id) ==
  CASE id.type = "number" -> [finite |-> TRUE, value |-> id.num, whole |-> TRUE]
    [] id.type = "string" -> ParseInt(id.chars)
    [] OTHER -> [finite |-> FALSE, value |-> 0, whole |-> TRUE]

\* a lookup without its where clause
FindFirst_Any(users, profileId) == users

\* store.db.query.users.findFirst({ where: eq(users.id, profileId) })
FindFirst(users, profileId) == { u \in users : u.id = profileId }

InitAuth ==
  /\ RouterInit
  /\ schemaCall = NoSchemaCall
  /\ cookieCall = NoCookieCall
  /\ factoryCall = NoFactoryCall
  /\ inflight = NoInflight
  /\ LET tokens == {"stale-token", "cookie-token"}
         authHeaders == { <<>>, <<"Bearer", "stale-token">>, <<"Bearer", "cookie-token">>,
                          <<"Basic", "stale-token">> }
         NoId == [type |-> "undefined", chars |-> <<>>, num |-> 0]
         ids == { NoId,
                  [NoId EXCEPT !.type = "string", !.chars = <<"7">>],
                  [NoId EXCEPT !.type = "string", !.chars = <<"1", "2", "p", "x">>],
                  [NoId EXCEPT !.type = "string", !.chars = <<"a", "b", "c">>],
                  [NoId EXCEPT !.type = "number", !.num = 7] }
         profiles == { [ok |-> FALSE, id |-> NoId] } \cup { [ok |-> TRUE, id |-> x] : x \in ids }
         tester == [id |-> 7, username |-> "tester", permission |-> 1]
         guest == [id |-> 12, username |-> "guest", permission |-> 0]
     IN \E authHeader \in authHeaders, cookieToken \in {""} \cup tokens,
           hasJwt \in BOOLEAN, verify \in [tokens -> profiles],
           users \in { {}, {tester}, {tester, guest} } :
          authCall = [pc |-> "start", authHeader |-> authHeader, cookie |-> cookieToken,
                      hasJwt |-> hasJwt, verify |-> verify, users |-> users,
                      headerToken |-> "", cookieToken |-> "",
                      profile |-> [ok |-> FALSE, id |-> NoId],
                      profileId |-> 0, verified |-> <<>>, queried |-> FALSE,
                      uid |-> <<>>, username |-> <<>>, admin |-> FALSE]

\* deriveAuth up to its first return
AuthTokens ==
  /\ authCall.pc = "start"
  /\ LET headerToken == HeaderToken(authCall.authHeader)
         cookieToken == authCall.cookie
     IN authCall' = [authCall EXCEPT
          !.headerToken = headerToken,
          !.cookieToken = cookieToken,
          !.pc = IF (headerToken = "" /\ cookieToken = "") \/ ~authCall.hasJwt
                 THEN "done"
                 ELSE IF headerToken # "" THEN "header" ELSE "fallback"]
  /\ UNCHANGED <<routerVars, schemaCall, cookieCall, factoryCall, inflight>>

\* profile = await jwt.verify(headerToken)
AuthVerifyHeader ==
  /\ authCall.pc = "header"
  /\ authCall' = [authCall EXCEPT
       !.profile = authCall.verify[authCall.headerToken],
       !.verified = Append(@, authCall.headerToken),
       !.pc = "fallback"]
  /\ UNCHANGED <<routerVars, schemaCall, cookieCall, factoryCall, inflight>>

\* the cookie fallback, then the id of the profile
AuthVerifyCookie ==
  /\ authCall.pc = "fallback"
  /\ LET fallsBack == FallsBack(authCall.profile, authCall.cookieToken, authCall.headerToken)
         profile == IF fallsBack THEN authCall.verify[authCall.cookieToken]
                    ELSE authCall.profile
         profileId == ProfileId(profile.id)
     IN authCall' = [authCall EXCEPT
          !.profile = profile,
          !.verified = IF fallsBack THEN Append(@, authCall.cookieToken) ELSE @,
          !.profileId = IF profile.ok /\ profileId.finite THEN profileId.value ELSE @,
          !.pc = IF profile.ok /\ profileId.finite THEN "query" ELSE "done"]
  /\ UNCHANGED <<routerVars, schemaCall, cookieCall, factoryCall, inflight>>

\* the user row and the three fields of the context
AuthFindUser ==
  /\ authCall.pc = "query"
  /\ LET found == FindFirst(authCall.users, authCall.profileId)
     IN \/ /\ found = {}
           /\ authCall' = [authCall EXCEPT !.queried = TRUE, !.pc = "done"]
        \/ \E user \in found :
             authCall' = [authCall EXCEPT
               !.queried = TRUE,
               !.uid = <<user.id>>,
               !.username = <<user.username>>,
               !.admin = (user.permission = 1),
               !.pc = "done"]
  /\ UNCHANGED <<routerVars, schemaCall, cookieCall, factoryCall, inflight>>

NextAuth == AuthTokens \/ AuthVerifyHeader \/ AuthVerifyCookie \/ AuthFindUser

SpecAuth == InitAuth /\ [][NextAuth]_vars

AuthReturned == authCall.pc = "done" /\ authCall.hasJwt

BearerAbsent == authCall.headerToken = ""

BearerFails ==
  authCall.headerToken # "" /\ ~authCall.verify[authCall.headerToken].ok

DistinctCookie ==
  authCall.cookieToken # "" /\ authCall.cookieToken # authCall.headerToken

IdOfSeven(profile) ==
  /\ profile.ok
  /\ \/ profile.id.type = "string" /\ profile.id.chars = <<"7">>
     \/ profile.id.type = "number" /\ profile.id.num = 7

C20_NoFallbackOnInvalidBearer ==
  AuthReturned /\ BearerFails =>
    /\ authCall.verified = <<authCall.headerToken>>
    /\ authCall.uid = <<>>
    /\ authCall.username = <<>>

AuthCalled == authCall.pc # "none"

\* C21: in one call of deriveAuth jwt.verify is invoked at most twice and
\* never twice with the same token; when the Bearer token and the cookie
\* token are the same string it is invoked at most once.
C21_VerifyOncePerToken ==
  AuthCalled =>
    /\ Len(authCall.verified) <= 2
    /\ Len(authCall.verified) = 2 => authCall.verified[1] # authCall.verified[2]
    /\ (authCall.authHeader # <<>> /\ authCall.authHeader[1] = "Bearer"
        /\ authCall.authHeader[2] = authCall.cookie)
         => Len(authCall.verified) <= 1

\* deriveAuth has returned after one call of jwt.verify although the token,
\* carried by both the header and the cookie, failed verification
C21_Witness ==
  /\ authCall.pc = "done"
  /\ authCall.authHeader = <<"Bearer", "cookie-token">>
  /\ authCall.cookie = "cookie-token"
  /\ ~authCall.verify["cookie-token"].ok
  /\ authCall.verified = <<"cookie-token">>

Digits == {"0", "1", "2", "3", "4", "5", "6", "7", "8", "9"}

NonFiniteId(id) ==
  \/ id.type \notin {"number", "string"}
  \/ id.type = "string" /\ (id.chars = <<>> \/ id.chars[1] \notin Digits)

Unauthenticated ==
  authCall.uid = <<>> /\ authCall.username = <<>> /\ ~authCall.admin

\* C22: once jwt.verify has produced a payload whose id is a string that
\* does not start with a digit, or is neither a number nor a string, the
\* user lookup is never called and uid, username and admin keep their
\* initial values until deriveAuth returns.
C22_NonFiniteIdSkipsLookup ==
  (AuthCalled /\ authCall.profile.ok /\ NonFiniteId(authCall.profile.id)) =>
    /\ authCall.pc \in {"fallback", "done"}
    /\ ~authCall.queried
    /\ Unauthenticated

\* deriveAuth has returned on a verified payload with id 'abc' while the
\* users table holds rows, without a lookup
C22_Witness ==
  /\ authCall.pc = "done"
  /\ authCall.profile.ok
  /\ authCall.profile.id.chars = <<"a", "b", "c">>
  /\ authCall.users # {}
  /\ ~authCall.queried
  /\ Unauthenticated

\* C23: uid, username and admin are written only by a lookup that found
\* the user whose id the payload carries, admin being TRUE exactly when
\* that user's permission is 1; a lookup that finds no such user leaves
\* the three fields as they were and deriveAuth returns; admin is never
\* TRUE while uid is undefined.
C23_StampedAfterLookup ==
  AuthCalled =>
    /\ ~Unauthenticated =>
         /\ authCall.queried
         /\ \E u \in authCall.users :
              /\ u.id = authCall.profileId
              /\ authCall.uid = <<u.id>>
              /\ authCall.username = <<u.username>>
              /\ authCall.admin = (u.permission = 1)
    /\ (authCall.queried /\ \A u \in authCall.users : u.id # authCall.profileId) =>
         authCall.pc = "done" /\ Unauthenticated
    /\ authCall.admin => authCall.uid # <<>>

\* deriveAuth has stamped the context with a user whose permission is not
\* 1: uid and username are set and admin is FALSE
C23_Witness ==
  /\ authCall.pc = "done"
  /\ authCall.queried
  /\ authCall.uid = <<12>>
  /\ authCall.username = <<"guest">>
  /\ ~authCall.admin

\* ------------------------------------------------------------ cookie jar
\* The text of the Cookie header and the value passed to set() are
\* sequences of lexemes: ";", "=", " ", escapes such as "%20", and plain
\* text. The entries of context.set.headers under Set-Cookie are the
\* sequence cookieCall.setCookie of strings.

\* s.split(sep)
RECURSIVE SplitOn(_, _)
SplitOn(s, sep) ==
  IF s = <<>> THEN << <<>> >>
  ELSE LET rest == SplitOn(Tail(s), sep)
       IN IF Head(s) = sep THEN << <<>> >> \o rest
          ELSE << <<Head(s)>> \o rest[1] >> \o Tail(rest)

RECURSIVE TrimStart(_)
TrimStart(s) == IF s # <<>> /\ Head(s) = " " THEN TrimStart(Tail(s)) ELSE s

RECURSIVE TrimEnd(_)
TrimEnd(s) ==
  IF s # <<>> /\ s[Len(s)] = " " THEN TrimEnd(SubSeq(s, 1, Len(s) - 1)) ELSE s

\* s.trim()
Trim(s) == TrimEnd(TrimStart(s))

\* the forEach over cookieHeader.split(';'): [threw, map], threw when
\* decodeURIComponent throws on an accepted pair
RECURSIVE ParsePairs(_, _)
ParsePairs(pairs, map) ==
  IF pairs = <<>> THEN [threw |-> FALSE, map |-> map]
  ELSE LET parts == SplitOn(Trim(Head(pairs)), "=")
           name == parts[1]
           value == IF Len(parts) >= 2 THEN parts[2] ELSE <<>>
       IN IF name # <<>> /\ value # <<>>
          THEN IF DecodeThrows(value) THEN [threw |-> TRUE, map |-> map]
               ELSE ParsePairs(Tail(pairs), Put(map, JoinLex(name), DecodeSeg(value)))
          ELSE ParsePairs(Tail(pairs), map)

\* parsedCookies after the header has been read
ParseCookies(cookieHeader) == ParsePairs(SplitOn(cookieHeader, ";"), NoHeaders)

\* encodeURIComponent
RECURSIVE EncodeURIComponent(_)
EncodeURIComponent(value) ==
  IF value = <<>> THEN ""
  ELSE (CASE Head(value) = " " -> "%20"
          [] Head(value) = "=" -> "%3D"
          [] Head(value) = ";" -> "%3B"
          [] OTHER -> Head(value)) \o EncodeURIComponent(Tail(value))

\* cookieStr of set(options)
CookieStr(prop, options) ==
  prop \o "=" \o EncodeURIComponent(options.value)
  \o (IF options.expires # "" THEN "; Expires=" \o options.expires ELSE "")
  \o (IF options.path # "" THEN "; Path=" \o options.path ELSE "")
  \o (IF options.httpOnly THEN "; HttpOnly" ELSE "")
  \o (IF options.secure THEN "; Secure" ELSE "")
  \o (IF options.sameSite # "" THEN "; SameSite=" \o options.sameSite ELSE "")

\* headers.set('Set-Cookie', cookieStr): the entry replaces the earlier ones
AppendHeader_Set(entries, cookieStr) == <<cookieStr>>

\* context.set.headers.append('Set-Cookie', cookieStr)
AppendHeader(entries, cookieStr) == Append(entries, cookieStr)

NoRead == [name |-> "", kind |-> "none", value |-> ""]

\* a context whose request carries one of the Cookie headers, before
\* createCookieHelpers(context) is called
InitCookie ==
  /\ RouterInit
  /\ schemaCall = NoSchemaCall
  /\ authCall = NoAuthCall
  /\ factoryCall = NoFactoryCall
  /\ inflight = NoInflight
  /\ \E cookieHeader \in
          { <<>>,
            <<"token", "=", "abc">>,
            <<"token", "=", "abc", ";", " ", "theme", "=", "dark", "%20", "mode">>,
            <<"token", "=", "a", "=", "b">>,
            <<"token", "=", "abc", "=", "=">>,
            <<"token", "=", "%E0">>,
            <<"flag", ";", " ", "token", "=", "abc">>,
            <<"token", "=", ";", " ", "theme", "=", "dark">>,
            <<"token", "=", "old", ";", "token", "=", "new">> } :
       cookieCall = [pc |-> "context", header |-> cookieHeader, parsed |-> NoHeaders,
                     read |-> NoRead, setCookie |-> <<>>, calls |-> <<>>]

\* createCookieHelpers(context)
CookieCreate ==
  /\ cookieCall.pc = "context"
  /\ LET parsed == ParseCookies(cookieCall.header)
     IN cookieCall' = [cookieCall EXCEPT
          !.pc = IF parsed.threw THEN "threw" ELSE "jar",
          !.parsed = parsed.map]
  /\ UNCHANGED <<routerVars, schemaCall, authCall, factoryCall, inflight>>

\* context.cookie[prop]: the get trap of the proxy
CookieGet(prop) ==
  /\ cookieCall.pc = "jar"
  /\ cookieCall' = [cookieCall EXCEPT !.read =
       IF prop \in InheritedKeys
       THEN [name |-> prop, kind |-> "inherited", value |-> InheritedValue]
       ELSE [name |-> prop, kind |-> "entry",
             value |-> IF prop \in DOMAIN cookieCall.parsed
                       THEN cookieCall.parsed[prop] ELSE ""]]
  /\ UNCHANGED <<routerVars, schemaCall, authCall, factoryCall, inflight>>

\* context.cookie[prop].set(options)
CookieSet(prop, options) ==
  /\ cookieCall.pc = "jar"
  /\ Len(cookieCall.calls) < MaxSetCookies
  /\ cookieCall' = [cookieCall EXCEPT
       !.setCookie = AppendHeader(@, CookieStr(prop, options)),
       !.calls = Append(@, [name |-> prop, options |-> options])]
  /\ UNCHANGED <<routerVars, schemaCall, authCall, factoryCall, inflight>>

NextCookie ==
  \/ CookieCreate
  \/ \E prop \in {"token", "theme", "auth_token", "constructor"} : CookieGet(prop)
  \/ \E prop \in {"token", "auth_token"},
        options \in { [value |-> <<"jwt">>, expires |-> "", path |-> "/", httpOnly |-> TRUE,
                       secure |-> TRUE, sameSite |-> "lax"],
                      [value |-> <<"a", " ", "b", "=", "c">>, expires |-> "", path |-> "",
                       httpOnly |-> FALSE, secure |-> FALSE, sameSite |-> ""],
                      [value |-> <<>>, expires |-> "Thu, 01 Jan 1970 00:00:00 GMT",
                       path |-> "/", httpOnly |-> FALSE, secure |-> FALSE,
                       sameSite |-> ""] } :
       CookieSet(prop, options)

SpecCookie == InitCookie /\ [][NextCookie]_vars

JarUsed == cookieCall.pc # "none"

\* C24: every call of set(options) on an entry of the jar adds one
\* Set-Cookie entry after the ones already there and changes none of them:
\* the entries are the cookie strings of the calls made, in call order.
C24_SetCookieAppended ==
  JarUsed =>
    /\ Len(cookieCall.setCookie) = Len(cookieCall.calls)
    /\ \A k \in 1..Len(cookieCall.calls) :
         cookieCall.setCookie[k] =
           CookieStr(cookieCall.calls[k].name, cookieCall.calls[k].options)

\* set() has been called for token and then for auth_token, and the
\* headers carry two different Set-Cookie entries
C24_Witness ==
  /\ JarUsed
  /\ Len(cookieCall.calls) = 2
  /\ cookieCall.calls[1].name = "token"
  /\ cookieCall.calls[2].name = "auth_token"
  /\ Len(cookieCall.setCookie) = 2
  /\ cookieCall.setCookie[1] # cookieCall.setCookie[2]

Carried(name) == \E k \in 1..Len(cookieCall.header) : cookieCall.header[k] = name

\* C25: building the jar never throws, and reading a name the Cookie header
\* does not carry returns an entry whose value is the empty string.
C25_UnsetReadsEmpty ==
  JarUsed =>
    /\ cookieCall.pc # "threw"
    /\ (cookieCall.read.kind # "none" /\ ~Carried(cookieCall.read.name)) =>
         cookieCall.read.kind = "entry" /\ cookieCall.read.value = ""

\* the values the header gives a name: for every pair of the header, split
\* on ';' and trimmed, that holds an '=', the decoded text after its first
\* '=' when the text before it is the name
FirstEq(pair) == CHOOSE k \in 1..Len(pair) : pair[k] = "=" /\ \A j \in 1..(k - 1) : pair[j] # "="

ValuesOfName(name) ==
  LET pairs == SplitOn(cookieCall.header, ";")
      trimmed == [k \in 1..Len(pairs) |-> Trim(pairs[k])]
      named == { k \in 1..Len(pairs) :
                   /\ \E j \in 1..Len(trimmed[k]) : trimmed[k][j] = "="
                   /\ JoinLex(SubSeq(trimmed[k], 1, FirstEq(trimmed[k]) - 1)) = name }
  IN { DecodeSeg(SubSeq(trimmed[k], FirstEq(trimmed[k]) + 1, Len(trimmed[k]))) : k \in named }

\* C26: the entry read for a name has, as its value, the URL-decoded text
\* that follows the first '=' of a pair of the Cookie header with that
\* name, further '=' characters included, and the empty string when no
\* pair holding an '=' has that name.
C26_ValueAfterFirstEquals ==
  (cookieCall.pc = "jar" /\ cookieCall.read.kind = "entry") =>
     IF ValuesOfName(cookieCall.read.name) = {}
     THEN cookieCall.read.value = ""
     ELSE cookieCall.read.value \in ValuesOfName(cookieCall.read.name)

\* -------------------------------------------------------- router factory
\* env is [defined, ROUTER_IMPL]; ROUTER_IMPL is <<>> when the property is
\* undefined and <<text>> otherwise. deps is [honoThrows, legacyThrows]:
\* whether each constructor throws. An implementation that is undefined is
\* "".

\* a normalizer that knows no implementation
NormalizeRouterImpl_None(value) == ""

\* normalizeRouterImpl(value)
NormalizeRouterImpl(value) ==
  IF value = <<>> \/ value[1] = "" THEN ""
  ELSE IF value[1] \in {"legacy", "hono"} THEN value[1]
  ELSE ""

\* env?.ROUTER_IMPL
RouterImplOf(env) == IF env.defined THEN env.ROUTER_IMPL ELSE <<>>

WarningText(raw) == "[router] Invalid ROUTER_IMPL \"" \o raw \o "\", falling back to hono."

\* createRouterWithFactory(env, deps) is about to be called
InitFactory ==
  /\ RouterInit
  /\ schemaCall = NoSchemaCall
  /\ authCall = NoAuthCall
  /\ cookieCall = NoCookieCall
  /\ inflight = NoInflight
  /\ \E env \in { [defined |-> FALSE, ROUTER_IMPL |-> <<>>] }
                \cup { [defined |-> TRUE, ROUTER_IMPL |-> v] :
                         v \in { <<>>, <<"">>, <<"legacy">>, <<"hono">>, <<"invalid">>,
                                 <<"Hono">>, <<"LEGACY">>, <<"elysia">> } },
        honoThrows \in BOOLEAN, legacyThrows \in BOOLEAN :
       factoryCall = [pc |-> "resolve", env |-> env, honoThrows |-> honoThrows,
                      legacyThrows |-> legacyThrows, envImpl |-> "", impl |-> "",
                      warnings |-> <<>>, honoCalls |-> 0, legacyCalls |-> 0,
                      result |-> "", thrown |-> ""]

\* resolveRouterImpl: the configured value, returned when it is valid
FactoryNormalize ==
  /\ factoryCall.pc = "resolve"
  /\ LET envImpl == NormalizeRouterImpl(RouterImplOf(factoryCall.env))
     IN factoryCall' = [factoryCall EXCEPT
          !.envImpl = envImpl,
          !.impl = envImpl,
          !.pc = IF envImpl # "" THEN "create" ELSE "default"]
  /\ UNCHANGED <<routerVars, schemaCall, authCall, cookieCall, inflight>>

\* resolveRouterImpl: the warning and the default
FactoryDefault ==
  /\ factoryCall.pc = "default"
  /\ LET raw == RouterImplOf(factoryCall.env)
     IN factoryCall' = [factoryCall EXCEPT
          !.warnings = IF raw # <<>> /\ raw[1] # ""
                       THEN Append(@, WarningText(raw[1])) ELSE @,
          !.impl = "hono",
          !.pc = "create"]
  /\ UNCHANGED <<routerVars, schemaCall, authCall, cookieCall, inflight>>

\* a switch that builds the legacy router when the Hono constructor throws
FactoryCreate_Fallback ==
  /\ factoryCall.pc = "create"
  /\ factoryCall' =
       IF factoryCall.impl = "hono" /\ ~factoryCall.honoThrows
       THEN [factoryCall EXCEPT !.honoCalls = @ + 1, !.result = "hono router",
                                !.pc = "returned"]
       ELSE IF factoryCall.legacyThrows
       THEN [factoryCall EXCEPT
               !.honoCalls = IF factoryCall.impl = "hono" THEN @ + 1 ELSE @,
               !.legacyCalls = @ + 1, !.thrown = "legacy init failed", !.pc = "threw"]
       ELSE [factoryCall EXCEPT
               !.honoCalls = IF factoryCall.impl = "hono" THEN @ + 1 ELSE @,
               !.legacyCalls = @ + 1, !.result = "legacy router", !.pc = "returned"]
  /\ UNCHANGED <<routerVars, schemaCall, authCall, cookieCall, inflight>>

\* the switch of createRouterWithFactory
FactoryCreate ==
  /\ factoryCall.pc = "create"
  /\ factoryCall' =
       CASE factoryCall.impl = "hono" ->
              IF factoryCall.honoThrows
              THEN [factoryCall EXCEPT !.honoCalls = @ + 1,
                                       !.thrown = "hono init failed", !.pc = "threw"]
              ELSE [factoryCall EXCEPT !.honoCalls = @ + 1,
                                       !.result = "hono router", !.pc = "returned"]
         [] factoryCall.impl = "legacy" ->
              IF factoryCall.legacyThrows
              THEN [factoryCall EXCEPT !.legacyCalls = @ + 1,
                                       !.thrown = "legacy init failed", !.pc = "threw"]
              ELSE [factoryCall EXCEPT !.legacyCalls = @ + 1,
                                       !.result = "legacy router", !.pc = "returned"]
         [] OTHER ->
              [factoryCall EXCEPT !.thrown = "Unsupported router implementation",
                                  !.pc = "threw"]
  /\ UNCHANGED <<routerVars, schemaCall, authCall, cookieCall, inflight>>

NextFactory == FactoryNormalize \/ FactoryDefault \/ FactoryCreate

SpecFactory == InitFactory /\ [][NextFactory]_vars

Resolved == factoryCall.pc \in {"create", "returned", "threw"}

Configured == RouterImplOf(factoryCall.env)

\* C27: resolveRouterImpl returns ROUTER_IMPL when it is 'legacy' or 'hono',
\* without a warning; for another non-empty value it returns 'hono' and has
\* logged one warning, which names the value; when ROUTER_IMPL or env is
\* undefined it returns 'hono' and has logged nothing.
C27_ResolveRouterImpl ==
  Resolved =>
    /\ (Configured # <<>> /\ Configured[1] \in {"legacy", "hono"}) =>
         factoryCall.impl = Configured[1] /\ factoryCall.warnings = <<>>
    /\ (Configured # <<>> /\ Configured[1] \notin {"legacy", "hono", ""}) =>
         /\ factoryCall.impl = "hono"
         /\ factoryCall.warnings = << WarningText(Configured[1]) >>
    /\ Configured = <<>> =>
         factoryCall.impl = "hono" /\ factoryCall.warnings = <<>>

\* ROUTER_IMPL 'invalid' has been resolved to 'hono' with one warning
C27_Witness ==
  /\ Resolved
  /\ factoryCall.env.ROUTER_IMPL = <<"invalid">>
  /\ factoryCall.impl = "hono"
  /\ Len(factoryCall.warnings) = 1

Finished == factoryCall.pc \in {"returned", "threw"}

\* C28: createRouterWithFactory calls the constructor of the resolved
\* implementation once and no other constructor; it returns what that
\* constructor returned, and when the constructor throws, its error is
\* what the caller gets.
C28_OneConstructor ==
  Finished =>
    /\ factoryCall.honoCalls = (IF factoryCall.impl = "hono" THEN 1 ELSE 0)
    /\ factoryCall.legacyCalls = (IF factoryCall.impl = "legacy" THEN 1 ELSE 0)
    /\ factoryCall.impl = "hono" =>
         IF factoryCall.honoThrows
         THEN factoryCall.pc = "threw" /\ factoryCall.thrown = "hono init failed"
         ELSE factoryCall.pc = "returned" /\ factoryCall.result = "hono router"
    /\ factoryCall.impl = "legacy" =>
         IF factoryCall.legacyThrows
         THEN factoryCall.pc = "threw" /\ factoryCall.thrown = "legacy init failed"
         ELSE factoryCall.pc = "returned" /\ factoryCall.result = "legacy router"

\* the Hono constructor has thrown for ROUTER_IMPL 'hono' while the legacy
\* constructor would have succeeded, and the legacy constructor was not
\* called
C28_Witness ==
  /\ factoryCall.pc = "threw"
  /\ factoryCall.env.ROUTER_IMPL = <<"hono">>
  /\ factoryCall.honoThrows
  /\ ~factoryCall.legacyThrows
  /\ factoryCall.thrown = "hono init failed"
  /\ factoryCall.legacyCalls = 0

\* ------------------------------------------------------- nested groups
\* An application that registers GET / and GET /list on the root router or
\* inside groups /friend and /v1, nested either way, with middleware
\* registered on any of the routers.
GroupRouteDefs ==
  { [method |-> "GET", path |-> Slash, handler |-> "echo", schema |-> NoSchema],
    [method |-> "GET", path |-> Path1(Lit("list")), handler |-> "echo",
     schema |-> NoSchema] }

NestedPrefixes == { Path1(Lit("friend")), Path1(Lit("v1")) }

GroupRequests ==
  { Request("GET", p, <<>>, NoHeaders, NoPayload) :
      p \in { Slash, Path1(Lit("list")), Path1(Lit("friend")), Path1(Lit("v1")),
              Path2(Lit("friend"), Lit("list")), Path2(Lit("v1"), Lit("list")),
              Path2(Lit("friend"), Lit("v1")), Path2(Lit("v1"), Lit("friend")),
              Path2(Lit("v1"), Lit("friend")) \o <<Lit("list")>>,
              Path2(Lit("friend"), Lit("v1")) \o <<Lit("list")>> } }

NextGroup ==
  \/ UseWithin("tag", MaxGroupRegistrations)
  \/ \E def \in GroupRouteDefs : AddRouteWithin(def, MaxGroupRegistrations)
  \/ \E prefix \in NestedPrefixes : GroupBeginWithin(prefix, MaxGroupRegistrations)
  \/ GroupEnd
  \/ \E request \in GroupRequests : Receive(request)
  \/ LegacyHandle
  \/ LegacyMiddleware
  \/ LegacyHandler
  \/ HonoHandle
  \/ HonoMiddleware
  \/ HonoHandler
  \/ Finish

SpecGroup == Init /\ [][NextGroup]_vars

RECURSIVE ConcatAll(_)
ConcatAll(chain) ==
  IF chain = <<>> THEN EmptyStr ELSE Concat(Head(chain), ConcatAll(Tail(chain)))

\* P+Q for a route registered with path Q under the prefixes P of its
\* groups, outermost first; P itself when Q is '/'
FullPath(route) ==
  IF route.chain = <<>> THEN route.q
  ELSE IF route.q = Slash THEN ConcatAll(route.chain)
  ELSE Concat(ConcatAll(route.chain), route.q)

ReachedAtFullPath(p) ==
  p.pc = "done" =>
    /\ (\E k \in 1..Len(hroutes) :
          hroutes[k].method = cur.method /\ FullPath(hroutes[k]) = cur.pathname)
         => p.route # NoRoute
    /\ p.route # NoRoute => FullPath(p.route) = cur.pathname

\* the middleware entries registered on the router the route's group was
\* created on
OnParent(route) ==
  { k \in 1..Len(hmws) :
      hmws[k].owner = SubSeq(route.chain, 1, Len(route.chain) - 1) }

ParentMiddlewareRan(p) ==
  (p.hran /\ p.route.chain # <<>>) =>
     \A k \in OnParent(p.route) : \E j \in 1..Len(p.ran) : p.ran[j] = hmws[k].id

\* the path half of C29: a route is reached at the concatenation of its
\* groups' prefixes and its own path, and nowhere else
GroupPathsCompose == ReachedAtFullPath(procL) /\ ReachedAtFullPath(procH)

\* C29: a route registered with path Q inside group(P, ...) is reached at
\* P+Q (P itself when Q is '/') and not at Q, prefixes of nested groups
\* composing outermost first; and every middleware entry registered on the
\* router the group was created on has run when the handler of one of the
\* group's routes runs, in the legacy adapter and in the Hono adapter.
C29_GroupRoutes ==
  /\ GroupPathsCompose
  /\ ParentMiddlewareRan(procL)
  /\ ParentMiddlewareRan(procH)

\* ---------------------------------------------------------------------------
\* Concurrently handled requests on one router.  The application state Map and
\* the objects each createContext allocates live in two heaps (stores, sets); a
\* context holds the addresses of its store and of its set object, so that two
\* contexts sharing an object is something the model can express.
\* ---------------------------------------------------------------------------

\* the value a request's middleware or handler writes, distinct per request
RequestTag(r) == IF r = 1 THEN "request 1" ELSE "request 2"

\* a context whose store property is the router's appState Map itself
StoreAddress_Shared(stores) == 1

\* store: Object.fromEntries(appState.entries()) is a fresh object
StoreAddress(stores) == Len(stores) + 1

\* the object literal of createContext / wrappedHandler
NewContext(impl, store, set) ==
  [ body |-> IF impl = "hono" THEN "null" ELSE "{}",
    store |-> store, set |-> set,
    uid |-> "undefined", admin |-> FALSE, username |-> "undefined" ]

\* what the context of request r shows to the code that holds it
Observed(r) ==
  LET ctx == inflight.ctx[r]
  IN [ status |-> inflight.sets[ctx.set].status,
       headers |-> inflight.sets[ctx.set].headers,
       uid |-> ctx.uid, admin |-> ctx.admin, username |-> ctx.username,
       body |-> ctx.body,
       store |-> inflight.stores[ctx.store] ]

\* a router of either adapter with one entry of application state, and two
\* requests received and not yet dispatched
InitInflight ==
  /\ RouterInit
  /\ schemaCall = NoSchemaCall
  /\ authCall = NoAuthCall
  /\ cookieCall = NoCookieCall
  /\ factoryCall = NoFactoryCall
  /\ \E impl \in {"legacy", "hono"} :
       LET appState == [key \in {"routerMode"} |-> impl]
           none == [r \in {1, 2} |-> NewContext(impl, 1, 1)]
           fresh == [ status |-> 200, headers |-> {}, uid |-> "undefined", admin |-> FALSE,
                      username |-> "undefined",
                      body |-> IF impl = "hono" THEN "null" ELSE "{}", store |-> appState ]
       IN inflight = [ pc |-> "serving", impl |-> impl,
                       stores |-> <<appState>>,
                       sets |-> <<[status |-> 0, headers |-> {}]>>,
                       appState |-> appState,
                       at |-> [r \in {1, 2} |-> "received"],
                       ctx |-> none,
                       own |-> [r \in {1, 2} |-> fresh],
                       resp |-> [r \in {1, 2} |-> [status |-> 0, headers |-> {}]] ]

\* handle() reaches createContext for request r
InflightCreateContext(r) ==
  /\ inflight.pc = "serving"
  /\ inflight.at[r] = "received"
  /\ LET store == StoreAddress(inflight.stores)
         set == Len(inflight.sets) + 1
     IN inflight' = [inflight EXCEPT
          !.stores = Append(@, inflight.stores[1]),
          !.sets = Append(@, [status |-> 200, headers |-> {}]),
          !.ctx[r] = NewContext(inflight.impl, store, set),
          !.at[r] = "running"]
  /\ UNCHANGED <<routerVars, schemaCall, authCall, cookieCall, factoryCall>>

\* one assignment made by a middleware or the handler of request r between two
\* awaits
InflightWrite(r, field) ==
  /\ inflight.pc = "serving"
  /\ inflight.at[r] = "running"
  /\ LET ctx == inflight.ctx[r]
     IN inflight' =
          CASE field = "status" ->
                 [inflight EXCEPT !.sets[ctx.set].status = 200 + r,
                                  !.own[r].status = 200 + r]
            [] field = "headers" ->
                 [inflight EXCEPT !.sets[ctx.set].headers = @ \cup {RequestTag(r)},
                                  !.own[r].headers = @ \cup {RequestTag(r)}]
            [] field = "uid" ->
                 [inflight EXCEPT !.ctx[r].uid = RequestTag(r),
                                  !.own[r].uid = RequestTag(r)]
            [] field = "admin" ->
                 [inflight EXCEPT !.ctx[r].admin = TRUE, !.own[r].admin = TRUE]
            [] field = "username" ->
                 [inflight EXCEPT !.ctx[r].username = RequestTag(r),
                                  !.own[r].username = RequestTag(r)]
            [] field = "body" ->
                 [inflight EXCEPT !.ctx[r].body = RequestTag(r),
                                  !.own[r].body = RequestTag(r)]
            [] field = "store" ->
                 [inflight EXCEPT !.stores[ctx.store]["routerMode"] = RequestTag(r),
                                  !.own[r].store["routerMode"] = RequestTag(r)]
  /\ inflight' # inflight
  /\ UNCHANGED <<routerVars, schemaCall, authCall, cookieCall, factoryCall>>

\* the handler of request r returned a plain value: the response is built from
\* context.set
InflightRespond(r) ==
  /\ inflight.pc = "serving"
  /\ inflight.at[r] = "running"
  /\ LET set == inflight.sets[inflight.ctx[r].set]
     IN inflight' = [inflight EXCEPT
          !.resp[r] = [status |-> set.status, headers |-> set.headers],
          !.at[r] = "responded"]
  /\ UNCHANGED <<routerVars, schemaCall, authCall, cookieCall, factoryCall>>

NextInflight ==
  \/ \E r \in {1, 2} : InflightCreateContext(r)
  \/ \E r \in {1, 2},
        field \in {"status", "headers", "uid", "admin", "username", "body", "store"} :
       InflightWrite(r, field)
  \/ \E r \in {1, 2} : InflightRespond(r)

SpecInflight == InitInflight /\ [][NextInflight]_vars

\* request r has a context
HasContext(r) == inflight.pc = "serving" /\ inflight.at[r] # "received"

\* C30: under every interleaving of two requests handled on one router, the
\* context of each request shows, for set.status, set.headers, uid, admin,
\* username, body and the keys of store, the values of construction overwritten
\* by that request's own writes only; the response of a request is built from
\* its own set; and the router's application state stays what it was.
C30_ContextPerRequest ==
  inflight.pc = "serving" =>
    /\ inflight.stores[1] = inflight.appState
    /\ \A r \in {1, 2} :
         /\ HasContext(r) => Observed(r) = inflight.own[r]
         /\ inflight.at[r] = "responded" =>
              inflight.resp[r] = [status |-> inflight.own[r].status,
                                  headers |-> inflight.own[r].headers]

\* both requests are in flight and each has written its own status, header,
\* uid and store key
C30_Witness ==
  /\ inflight.pc = "serving"
  /\ \A r \in {1, 2} :
       /\ inflight.at[r] = "running"
       /\ Observed(r).status = 200 + r
       /\ Observed(r).headers = {RequestTag(r)}
       /\ Observed(r).uid = RequestTag(r)
       /\ Observed(r).store["routerMode"] = RequestTag(r)

\* ---------------------------------------------------------------------------
\* Bodies of every kind: an upload route without a schema, routes of four
\* methods with a schema that requires the fields key and file, behind
\* middleware that writes to context.set or answers the request itself.
\* ---------------------------------------------------------------------------
\* the schema of POST /storage
StorageSchema ==
  ObjectSchema(<< Prop("key", "string", FALSE), Prop("file", "file", FALSE) >>)

\* the fields of a multipart upload: a text field and a file
UploadFields == ("key" :> JsString("a.png")) @@ ("file" :> JsBlob)

Multipart ==
  [contentType |-> "multipart/form-data", wellFormed |-> TRUE, json |-> JsUndefined,
   form |-> UploadFields, text |-> "--boundary"]

BodyRouteDefs ==
  { [method |-> "POST", path |-> Path1(Lit("storage")), handler |-> "echo",
     schema |-> NoSchema] }
  \cup { [method |-> m, path |-> BodyPath, handler |-> "echo", schema |-> StorageSchema] :
           m \in {"POST", "GET", "DELETE"} }

BodyPayloads ==
  { Multipart,
    MalformedJson,
    TextPayload,
    JsonPayload(JsObject("key" :> JsString("k")), "{key:k}"),
    JsonPayload(JsNull, "null"),
    JsonPayload(JsString("k"), "k"),
    JsonPayload(JsNumber("5"), "5") }

BodyRequests ==
  { Request("POST", p, <<>>, NoHeaders, b) :
      p \in {Path1(Lit("storage")), BodyPath}, b \in BodyPayloads }
  \cup { Request(m, BodyPath, <<>>, NoHeaders, b) :
           m \in {"GET", "DELETE"},
           b \in {NoPayload, JsonPayload(JsObject(UploadFields), "{key:a.png,file:{}}")} }

NextBody ==
  \/ \E kind \in {"tag", "deny"} : Use(kind)
  \/ \E def \in BodyRouteDefs : AddRoute(def)
  \/ \E request \in BodyRequests : Receive(request)
  \/ LegacyHandle
  \/ LegacyMiddleware
  \/ LegacyHandler
  \/ HonoHandle
  \/ HonoMiddleware
  \/ HonoHandler
  \/ Finish

SpecBody == Init /\ [][NextBody]_vars

\* the request carries a well-formed multipart body that is decoded
MultipartSent == DecodesBody(cur.method) /\ cur.payload = Multipart

\* ctx.body is a map of the submitted fields, files being blobs
FieldMap(p) ==
  /\ p.ctx.body.type = "object"
  /\ \A name \in DOMAIN UploadFields : GetProp(p.ctx.body, name) = UploadFields[name]

MultipartDecoded(p) ==
  Matched(p) /\ MultipartSent =>
    /\ p.decoded
    /\ p.hran
    /\ FieldMap(p)

\* C31: a POST, PUT or PATCH request with a multipart/form-data body reaches
\* the handler of its route, also when the route's schema requires one of the
\* submitted fields, and the handler reads every submitted field as
\* ctx.body[name], a file as a blob, in the legacy adapter and in the Hono
\* adapter.
C31_MultipartFieldMap == MultipartDecoded(procL) /\ MultipartDecoded(procH)

\* ---------------------------------------------------------------------------
\* Every way into handleError: a body that cannot be decoded, a body the
\* schema rejects, a middleware that throws and handlers that throw an Error,
\* a not-found error and a forbidden error.
\* ---------------------------------------------------------------------------
NextError ==
  \/ Use("throw")
  \/ \E def \in { [method |-> "POST", path |-> BodyPath, handler |-> "echo",
                   schema |-> StorageSchema],
                  [method |-> "GET", path |-> BodyPath, handler |-> "missing",
                   schema |-> NoSchema],
                  [method |-> "DELETE", path |-> BodyPath, handler |-> "forbid",
                   schema |-> NoSchema],
                  [method |-> "PUT", path |-> BodyPath, handler |-> "throw",
                   schema |-> NoSchema] } : AddRoute(def)
  \/ \E request \in
          { Request("POST", BodyPath, <<>>, NoHeaders, b) :
              b \in { MalformedJson,
                      JsonPayload(JsObject("key" :> JsString("k")), "{key:k}"),
                      JsonPayload(JsObject(NoFields), "{}"),
                      JsonPayload(JsObject(UploadFields), "{key:a.png,file:{}}") } }
          \cup { Request(m, BodyPath, <<>>, NoHeaders, NoPayload) :
                   m \in {"GET", "DELETE", "PUT"} } : Receive(request)
  \/ LegacyHandle
  \/ LegacyMiddleware
  \/ LegacyHandler
  \/ HonoHandle
  \/ HonoMiddleware
  \/ HonoHandler
  \/ Finish

SpecError == Init /\ [][NextError]_vars

\* the body of resp is {success: false, error: {code, message, requestId,
\* details}} with a request id that was generated for a request
IsErrorEnvelope(resp) ==
  /\ resp.body.kind = "json"
  /\ DOMAIN resp.body.json = {"success", "error"}
  /\ resp.body.json.success = FALSE
  /\ DOMAIN resp.body.json.error = {"code", "message", "requestId", "details"}
  /\ resp.body.json.error.requestId \in RequestIds

\* handleError answered with this status and this code
Mapped(p, status, code) ==
  /\ p.pc = "done"
  /\ p.handled = 1
  /\ p.resp.status = status
  /\ IsErrorEnvelope(p.resp)
  /\ ErrorCode(p.resp) = code

\* the handler of the matched route ran and was of this kind
Threw(p, kind) == p.hran /\ p.route.handler = kind

ErrorsMapped(p, mws) ==
  /\ p.handled > 0 => p.pc = "done" /\ IsErrorEnvelope(p.resp)
  /\ Matched(p) /\ cur.payload = MalformedJson /\ DecodesBody(cur.method) =>
       Mapped(p, 400, "VALIDATION_ERROR")
  /\ Matched(p) /\ p.decoded /\ MissingRequired(p.route.schema, p.ctx.body) > 0 =>
       /\ Mapped(p, 400, "VALIDATION_ERROR")
       /\ FieldMessages(p.resp) = MissingRequired(p.route.schema, p.ctx.body)
  /\ Threw(p, "missing") => Mapped(p, 404, "NOT_FOUND")
  /\ Threw(p, "forbid") => Mapped(p, 403, "FORBIDDEN")
  /\ Threw(p, "throw") => Mapped(p, 500, "INTERNAL_ERROR")
  /\ MwThrew(p, mws) => Mapped(p, 500, "INTERNAL_ERROR")

\* C32: handleError answers a validation failure with 400 and
\* VALIDATION_ERROR, carrying one detail per failed property when the error has
\* details; a not-found error with 404 and NOT_FOUND; a forbidden error with
\* 403 and FORBIDDEN; any other thrown value with 500 and INTERNAL_ERROR; the
\* body is the error envelope with a generated request id, and the call
\* always ends with a response.
C32_HandleErrorMapping ==
  ErrorsMapped(procL, LRoot.middlewares) /\ ErrorsMapped(procH, hmws)

\* the legacy adapter answered 404 from a handler's not-found error and the
\* Hono adapter is about to
C32_Witness ==
  /\ Mapped(procL, 404, "NOT_FOUND")
  /\ Threw(procL, "missing")
  /\ procH.pc = "start"

\* the request was routed: a route matched and its context was built
Routed(p) == p.route # NoRoute

\* decoding the body fails, or the decoded body lacks a property the route's
\* schema requires
FailsEarly(p) ==
  \/ DecodesBody(cur.method) /\ LegacyReadsBody(cur.payload) /\ ~cur.payload.wellFormed
  \/ p.route.schema # NoSchema /\ MissingRequired(p.route.schema, p.ctx.body) > 0

StagesInOrder(p, mws) ==
  Routed(p) =>
    /\ p.ctx.built
    /\ FailsEarly(p) =>
         p.pc = "done" /\ p.resp.status = 400 /\ p.ran = <<>> /\ ~p.hran
    /\ p.ran # <<>> =>
         /\ DecodesBody(cur.method) => p.decoded
         /\ p.ran = [k \in 1..Len(p.ran) |-> mws[k].id]
    /\ p.answered # 0 =>
         p.pc = "done" /\ ~p.hran /\ p.ran[Len(p.ran)] = p.answered
    /\ p.hran =>
         /\ p.pc = "done"
         /\ p.answered = 0
         /\ p.ran = [k \in 1..Len(mws) |-> mws[k].id]

\* C33: for a request routed to a route, the context is built first, the body
\* is decoded and validated before the first middleware entry runs, the
\* entries run in registration order before the handler, and the entry that
\* answers ends the request; a request whose body cannot be decoded or lacks
\* a required property is answered 400 with no middleware entry and no
\* handler run, in both adapters.
C33_StageOrder ==
  StagesInOrder(procL, LRoot.middlewares) /\ StagesInOrder(procH, hmws)

\* both adapters answered 400 to a body lacking required properties, behind a
\* registered middleware entry that did not run
C33_Witness ==
  /\ BothDone
  /\ hmws # <<>>
  /\ \A p \in {procL, procH} :
       /\ Routed(p)
       /\ p.decoded
       /\ MissingRequired(p.route.schema, p.ctx.body) > 0
       /\ p.resp.status = 400
       /\ p.ran = <<>>

\* the schema declares a property that is not optional
HasRequired(schema) ==
  /\ schema # NoSchema
  /\ \E k \in 1..Len(schema.properties) : ~schema.properties[k].optional

AlwaysRejected(p) ==
  Routed(p) /\ cur.method \in {"GET", "DELETE"} /\ HasRequired(p.route.schema) =>
    /\ ~p.decoded
    /\ p.pc = "done"
    /\ p.resp.status = 400
    /\ ErrorCode(p.resp) = "VALIDATION_ERROR"
    /\ ~p.hran

CodeRan(p) == p.ran # <<>> \/ p.hran

BodyIsFieldMap(p) == CodeRan(p) => p.ctx.body.type = "object"

\* C39: whenever a middleware entry or a handler has run, ctx.body is a plain
\* object of fields, never null, a string, a number or a FormData, in the
\* legacy adapter and in the Hono adapter.
C39_BodyIsObject == BodyIsFieldMap(procL) /\ BodyIsFieldMap(procH)

\* ---------------------------------------------------------------------------
\* Requests that match no route.
\* ---------------------------------------------------------------------------
\* handle() is past its first step for the request
Started(p) == p.pc \notin {"idle", "start"}

UnmatchedSkipsChain(p, unmatched) ==
  (cur # NoReq /\ cur.method # "OPTIONS" /\ Started(p) /\ unmatched) =>
    /\ p.pc = "done"
    /\ p.ran = <<>>
    /\ ~p.hran
    /\ p.resp.status = 404
    /\ p.resp.headers = JsonHeaders

\* C35: a request with a method other than OPTIONS that matches no route is
\* answered 404 in the first step of handle(), with no middleware entry and
\* no handler run and with the content type as its only header, in both
\* adapters.
C35_UnmatchedSkipsChain ==
  /\ UnmatchedSkipsChain(procL, LegacyUnmatched)
  /\ UnmatchedSkipsChain(procH, HonoUnmatched)

\* both adapters answered 404 to a GET that matches no route while a
\* middleware entry is registered
C35_Witness ==
  /\ BothDone
  /\ cur.method = "GET"
  /\ LegacyUnmatched /\ HonoUnmatched
  /\ hmws # <<>> /\ LRoot.middlewares # <<>>
  /\ procL.resp.status = 404 /\ procH.resp.status = 404
  /\ procL.ran = <<>> /\ procH.ran = <<>>

\* ---------------------------------------------------------------------------
\* Middleware registered on a group router.
\* ---------------------------------------------------------------------------
\* the middleware entries registered with use() on the group router the route
\* was registered on
OnOwnGroup(route) ==
  { k \in 1..Len(hmws) : hmws[k].owner # <<>> /\ hmws[k].owner = route.chain }

GroupMiddlewareRan(p) ==
  p.hran =>
    \A k \in OnOwnGroup(p.route) : \E j \in 1..Len(p.ran) : p.ran[j] = hmws[k].id

\* the adapters ran the same entries for the request
SameEntriesRan == BothDone => procL.ran = procH.ran

\* C36: when the handler of a route registered on a group router runs, every
\* middleware entry registered with use() on that group router has run, in
\* the legacy adapter and in the Hono adapter, and for every request the two
\* adapters run the same entries.
C36_GroupMiddleware ==
  /\ GroupMiddlewareRan(procL)
  /\ GroupMiddlewareRan(procH)
  /\ SameEntriesRan

\* ---------------------------------------------------------------------------
\* Routes that overlap: a static path and a parameter path of one method,
\* registered on the root router or inside group('/feed', ...); the callback
\* of a group may also register on the router the group was created on, which
\* it holds in its closure.
\* ---------------------------------------------------------------------------
\* get(path, handler) called, inside the callback of a group, on the router
\* the group was created on
AddRouteOuter(def) ==
  /\ phase = "boot"
  /\ Registrations < MaxRegistrations
  /\ Depth > 1
  /\ ~Registered(def)
  /\ LET id == Len(hroutes) + 1
         outer == SubSeq(Chain, 1, Len(Chain) - 1)
         lparent == lrouters[Depth - 1]
         hparent == hrouters[Depth - 1]
         lroute == [method |-> def.method, path |-> def.path, handler |-> def.handler,
                    schema |-> def.schema, state |-> 0, id |-> id, grp |-> Depth > 2,
                    q |-> def.path, chain |-> outer]
         hroute == [method |-> def.method, path |-> JoinPaths(hparent.prefix, def.path),
                    handler |-> def.handler, schema |-> def.schema,
                    state |-> hparent.appState, id |-> id, grp |-> Depth > 2,
                    q |-> def.path, chain |-> outer]
     IN /\ lrouters' = [lrouters EXCEPT ![Depth - 1] =
                          [lparent EXCEPT !.routes[def.method] = Append(@, lroute)]]
        /\ hroutes' = Append(hroutes, hroute)
  /\ UNCHANGED <<lmaps, hrouters, hmws, hmaps, phase, cur, procL, procH, stateLog>>
  /\ UNCHANGED auxVars

NextOrder ==
  \/ \E def \in { [method |-> "GET", path |-> Path1(Lit("timeline")),
                   handler |-> "created", schema |-> NoSchema],
                  [method |-> "GET", path |-> Path1(<<":", "id">>),
                   handler |-> "echo", schema |-> NoSchema] } : AddRoute(def)
  \/ \E def \in { [method |-> "GET", path |-> Path2(Lit("feed"), Lit("timeline")),
                   handler |-> "raw", schema |-> NoSchema] } : AddRouteOuter(def)
  \/ GroupBegin(Path1(Lit("feed")))
  \/ GroupEnd
  \/ \E request \in { Request("GET", path, <<>>, NoHeaders, NoPayload) :
                        path \in { Path2(Lit("feed"), Lit("timeline")),
                                   Path2(Lit("feed"), Lit("7")),
                                   Path1(Lit("timeline")) } } : Receive(request)
  \/ LegacyHandle
  \/ LegacyHandler
  \/ HonoHandle
  \/ HonoHandler
  \/ Finish

SpecOrder == Init /\ [][NextOrder]_vars

\* the routes of the request's method in the order the claim gives them:
\* registration order, the routes of a group entering it when group() returns
ClaimedOrder == IF cur.method \in Methods THEN LRoot.routes[cur.method] ELSE <<>>

\* LegacyExtractParams or HonoPathMatches, by adapter
Accepts(adapter, path, pathname) ==
  IF adapter = "legacy" THEN LegacyExtractParams(path, pathname).matched
  ELSE HonoPathMatches(path, pathname)

FirstRegisteredWins(p, adapter) ==
  LET hits == { k \in 1..Len(ClaimedOrder) :
                  Accepts(adapter, ClaimedOrder[k].path, cur.pathname) }
  IN (Started(p) /\ hits # {}) =>
       /\ p.route # NoRoute
       /\ p.route.id = ClaimedOrder[CHOOSE x \in hits : \A y \in hits : x <= y].id
       /\ p.hran => p.resp = HandlerResponse(RunHandler(p.route.handler, p.ctx))

\* C37: when several routes of the request's method match the path, the one
\* dispatched is the first of them in registration order, the routes of a
\* group taking their place in that order when the group() call returns, and
\* the response is that of its handler, in both adapters.
C37_FirstRegisteredWins ==
  FirstRegisteredWins(procL, "legacy") /\ FirstRegisteredWins(procH, "hono")

\* the same without registrations made on the outer router while a group's
\* callback runs: every route was registered on the innermost open router
NoClosureRegistration ==
  \A k \in 1..Len(hroutes) : hroutes[k].handler # "raw"

FirstRegisteredWinsBuilderStyle == NoClosureRegistration => C37_FirstRegisteredWins

\* ---------------------------------------------------------------------------
\* state(key, value) called while requests are in flight.
\* ---------------------------------------------------------------------------
\* state(key, value): appState.set(key, value) on the router's Map; the field
\* appState is history, the entries put by state() calls
InflightState(key, value) ==
  /\ inflight.pc = "serving"
  /\ IF key \in DOMAIN inflight.appState THEN inflight.appState[key] # value ELSE TRUE
  /\ inflight' = [inflight EXCEPT !.stores[1] = Put(@, key, value),
                                  !.appState = Put(@, key, value)]
  /\ UNCHANGED <<routerVars, schemaCall, authCall, cookieCall, factoryCall>>

NextSnapshot ==
  \/ \E r \in {1, 2} : InflightCreateContext(r)
  \/ \E key \in {"routerMode", "cache"}, value \in {"legacy", "hono"} :
       InflightState(key, value)
  \/ \E r \in {1, 2} : InflightRespond(r)

SpecSnapshot == InitInflight /\ [][NextSnapshot]_vars

\* one step seen from request r: the store of its context is the Map's
\* entries of the moment the context is built and stays what it is afterwards
SnapshotStep(r) ==
  /\ (~HasContext(r) /\ HasContext(r)') =>
        /\ Observed(r)'.store = inflight.appState
        /\ inflight'.appState = inflight.appState
  /\ (HasContext(r) /\ HasContext(r)') => Observed(r)'.store = Observed(r).store

\* C34: the store of a request's context holds the entries the application
\* state had when the context was built, all of them and nothing else; a
\* state(key, value) call made afterwards changes no key of it and is seen by
\* the contexts built after the call.
C34_StoreIsSnapshot == [][SnapshotStep(1) /\ SnapshotStep(2)]_vars

\* request 1 still holds the entries of before a state() call that request 2,
\* whose context was built after the call, sees
C34_Witness ==
  /\ HasContext(1) /\ HasContext(2)
  /\ inflight.at[1] = "running"
  /\ Observed(2).store = inflight.appState
  /\ Observed(1).store # inflight.appState
  /\ "cache" \in DOMAIN Observed(2).store
  /\ "cache" \notin DOMAIN Observed(1).store

====
